---- MODULE Spec2Model ----
(***************************************************************************)
(* A model of the rate-table parser of ibkr_rates (src/src/ibkr_rates/     *)
(* parser.py) and of the update run that writes its snapshots              *)
(* (src/src/ibkr_rates/update.py).  Text is a sequence of one-character    *)
(* strings, so that the regular expressions and string tests of the code   *)
(* are computed character by character.  A character outside ASCII is      *)
(* written by its code point ("U+2264"), and so is the backtick ("U+0060"). *)
(***************************************************************************)
EXTENDS Integers, Sequences, FiniteSets, TLC

VARIABLES
    pc,                \* _rows_from_cells: "idle", "loop" or "done"
    parser,            \* "interest" (parse_interest_rates) or "margin"
    consumed,          \* the cell rows taken from cells_iter so far, in order
    rows,              \* the list `rows` of _rows_from_cells
    last_currency,     \* the local `last_currency` of _rows_from_cells
    date_string,       \* the argument `date_string` of _rows_from_cells
    origin,            \* origin[k]: index in `consumed` of the row that produced rows[k]
    applied,           \* the field interpreter applied to `text`, or "none"
    text,              \* the argument text of the field interpreter
    invert,            \* the keyword argument `invert`
    result,            \* what the field interpreter returned
    html_text,         \* the argument `html_text` of the parse function
    cells_iter,        \* the rows the generator _iter_rows yields, in order
    raised,            \* the exception that left the last call, or NoError
    calls,             \* the parse calls that ended, in order, with their outcome
    upc,               \* run_update: "idle", "loop", "readme", "returned" or "raised"
    source_names,      \* the argument `source_names` of run_update
    html_overrides,    \* the keys of the argument `html_overrides`
    index,             \* the number of sources the loop of run_update is done with
    files,             \* the files under output_root: path to content
    written,           \* the dict `written` of run_update, in insertion order
    fetched,           \* the URLs the fetcher was called with, in order
    readme             \* README.md next to output_root: whether it exists, its text, its writes

vars ==
    <<pc, parser, consumed, rows, last_currency, date_string, origin,
      applied, text, invert, result,
      html_text, cells_iter, raised, calls,
      upc, source_names, html_overrides, index, files, written, fetched, readme>>

assemblerVars == <<pc, parser, consumed, rows, last_currency, date_string, origin>>

interpreterVars == <<applied, text, invert, result>>

parseVars == <<html_text, cells_iter, raised, calls>>

updateVars == <<upc, source_names, html_overrides, index, files, written, fetched, readme>>

callerVars == <<parseVars, updateVars>>

-----------------------------------------------------------------------------
(* Bounds of the model.                                                    *)

MaxRows == 4

MaxBMLen == 6

MaxTierLen == 5
\* Longest rate text, in tokens, given to _parse_rate.
MaxRateLen == 6
\* Longest document, in tokens, given to _extract_table_after_heading.
MaxDocLen == 5
\* Longest page, in tokens, given to parse_interest_rates and parse_margin_rates.
MaxPageLen == 4
\* Most calls of the parse functions in one behaviour.
MaxParses == 3
\* Most rows given to rows_to_csv.
MaxCsvRows == 3
\* Longest list source_names given to run_update.
MaxNames == 2

-----------------------------------------------------------------------------
(* Characters and strings.                                                 *)

Empty == <<>>

Digit == {"0", "1", "2", "3", "4", "5", "6", "7", "8", "9"}

Space == {" ", "\t", "\n", "\r"}

Max(S) == CHOOSE x \in S : \A y \in S : y <= x

Min(S) == CHOOSE x \in S : \A y \in S : x <= y

RECURSIVE Flatten(_)
Flatten(ss) == IF ss = <<>> THEN <<>> ELSE Head(ss) \o Flatten(Tail(ss))

SeqsUpTo(S, n) == UNION {[1..k -> S] : k \in 0..n}

\* str.lower() on the letters the model uses.
LowerChar(c) ==
    CASE c = "A" -> "a"
      [] c = "B" -> "b"
      [] c = "L" -> "l"
      [] c = "M" -> "m"
      [] OTHER -> c

Lower(t) == [i \in 1..Len(t) |-> LowerChar(t[i])]

\* str.strip(): leading and trailing whitespace removed.
Strip(t) ==
    LET keep == {i \in 1..Len(t) : t[i] \notin Space}
    IN  IF keep = {} THEN <<>> ELSE SubSeq(t, Min(keep), Max(keep))

\* `sub in t` for strings.
Contains(t, sub) ==
    \E i \in 1..(Len(t) - Len(sub) + 1) : SubSeq(t, i, i + Len(sub) - 1) = sub

\* The index after the longest run of characters of S that starts at i
\* (a greedy X* of the regular expression engine).
RECURSIVE SkipChars(_, _, _)
SkipChars(t, i, S) ==
    IF i <= Len(t) /\ t[i] \in S THEN SkipChars(t, i + 1, S) ELSE i

\* Every index at which [0-9]+(?:\.[0-9]+)? can end (exclusive) when it
\* starts at i: the engine tries them from the largest down (both
\* quantifiers are greedy, the group is tried before it is skipped).
NumberEnds(t, i) ==
    LET intEnds == (i + 1)..SkipChars(t, i, Digit)
        fracEnds(d) ==
            IF d <= Len(t) /\ t[d] = "."
            THEN (d + 2)..SkipChars(t, d + 1, Digit)
            ELSE {}
    IN  UNION {{d} \cup fracEnds(d) : d \in intEnds}

-----------------------------------------------------------------------------
(* _parse_rate                                                             *)

NoMatch == [found |-> FALSE]

\* re: -?[0-9]+(?:\.[0-9]+)?%? tried at index i.
RateMatchAt(t, i) ==
    LET s == IF t[i] = "-" /\ NumberEnds(t, i + 1) # {} THEN i + 1 ELSE i
        ends == NumberEnds(t, s)
    IN  IF ends = {} THEN NoMatch
        ELSE LET e == Max(ends)
                 e2 == IF e <= Len(t) /\ t[e] = "%" THEN e + 1 ELSE e
             IN  [found |-> TRUE, group0 |-> SubSeq(t, i, e2 - 1)]

\* re.search: the match at the leftmost index that has one.
RateSearch(t) ==
    LET starts == {i \in 1..Len(t) : RateMatchAt(t, i).found}
    IN  IF starts = {} THEN NoMatch ELSE RateMatchAt(t, Min(starts))

\* Mutant: the matched text is returned with its percent sign.
ParseRate_KeepPercent(rate_text) ==
    LET match == RateSearch(rate_text)
    IN  IF ~match.found THEN Empty ELSE match.group0

ParseRate(rate_text) ==
    LET match == RateSearch(rate_text)
    IN  IF ~match.found THEN Empty
        ELSE SelectSeq(match.group0, LAMBDA c : c # "%")

-----------------------------------------------------------------------------
(* _parse_benchmark_diff                                                   *)

\* re: BM\s*([+-])\s*([0-9]+(?:\.[0-9]+)?)% with re.IGNORECASE, tried at i.
\* A shorter run of \s* leaves a whitespace character where the sign or a
\* digit is required, so only the longest run is followed.
BMMatchAt(t, i) ==
    IF ~(i + 1 <= Len(t) /\ LowerChar(t[i]) = "b" /\ LowerChar(t[i + 1]) = "m")
    THEN NoMatch
    ELSE LET s == SkipChars(t, i + 2, Space)
         IN  IF ~(s <= Len(t) /\ t[s] \in {"+", "-"}) THEN NoMatch
             ELSE LET n == SkipChars(t, s + 1, Space)
                      ends == {e \in NumberEnds(t, n) : e <= Len(t) /\ t[e] = "%"}
                  IN  IF ends = {} THEN NoMatch
                      ELSE [found |-> TRUE, sign |-> t[s],
                            value |-> SubSeq(t, n, Max(ends) - 1)]

BMSearch(t) ==
    LET starts == {i \in 1..Len(t) : BMMatchAt(t, i).found}
    IN  IF starts = {} THEN NoMatch ELSE BMMatchAt(t, Min(starts))

\* Mutant: the inverted case returns the bare magnitude for both signs.
ParseBenchmarkDiff_Magnitude(rate_text, inv) ==
    LET match == BMSearch(rate_text)
    IN  IF ~match.found THEN <<"0">> ELSE match.value

\* Mutant: a text without a benchmark gives the empty string, as _parse_rate does.
ParseBenchmarkDiff_EmptyDefault(rate_text, inv) ==
    LET match == BMSearch(rate_text)
    IN  IF ~match.found THEN Empty
        ELSE IF inv /\ match.sign = "-" THEN <<"-">> \o match.value
        ELSE match.value

ParseBenchmarkDiff(rate_text, inv) ==
    LET match == BMSearch(rate_text)
    IN  IF ~match.found THEN <<"0">>
        ELSE IF inv
             THEN IF match.sign = "-" THEN <<"-">> \o match.value
                  ELSE IF match.sign = "+" THEN match.value
                  ELSE match.value
             ELSE match.value

-----------------------------------------------------------------------------
(* _parse_tier_bounds                                                      *)

\* re.findall(r"[0-9][0-9,\.]*", t): the non-overlapping matches from index i on.
RECURSIVE FindNumbers(_, _)
FindNumbers(t, i) ==
    IF i > Len(t) THEN <<>>
    ELSE IF t[i] \in Digit
         THEN LET e == SkipChars(t, i + 1, Digit \cup {",", "."})
              IN  <<SubSeq(t, i, e - 1)>> \o FindNumbers(t, e)
         ELSE FindNumbers(t, i + 1)

\* re.sub(r",", "", n)
RemoveCommas(n) == SelectSeq(n, LAMBDA c : c # ",")

\* The symbols of line 125, as the source file spells them: the first is the
\* three characters U+00E2 U+2030 U+00A4.
RangeSymbols == {<<"U+00E2", "U+2030", "U+00A4">>, <<"<", "=">>, <<"-">>}

AllWord == <<"a", "l", "l">>

\* Mutant: an unbounded tier gets the lower bound "0".
ParseTierBounds_ZeroLow(tier_text) ==
    LET normalized == Strip(tier_text)
        found == FindNumbers(normalized, 1)
        numbers == [k \in 1..Len(found) |-> RemoveCommas(found[k])]
        ranged == \E symbol \in RangeSymbols : Contains(normalized, symbol)
    IN  IF normalized = Empty THEN <<<<"0">>, Empty>>
        ELSE IF Lower(normalized) = AllWord THEN <<<<"0">>, Empty>>
        ELSE IF Contains(normalized, <<">">>)
             THEN <<IF numbers # <<>> THEN numbers[1] ELSE Empty, Empty>>
        ELSE IF ranged /\ Len(numbers) >= 2 THEN <<numbers[1], numbers[2]>>
        ELSE IF ranged /\ Len(numbers) = 1 THEN <<<<"0">>, numbers[1]>>
        ELSE IF numbers # <<>> THEN <<numbers[1], Empty>>
        ELSE <<Empty, Empty>>

\* Mutant: the range markers are tested before the greater-than marker.
ParseTierBounds_RangeFirst(tier_text) ==
    LET normalized == Strip(tier_text)
        found == FindNumbers(normalized, 1)
        numbers == [k \in 1..Len(found) |-> RemoveCommas(found[k])]
        ranged == \E symbol \in RangeSymbols : Contains(normalized, symbol)
    IN  IF normalized = Empty THEN <<Empty, Empty>>
        ELSE IF Lower(normalized) = AllWord THEN <<Empty, Empty>>
        ELSE IF ranged /\ Len(numbers) >= 2 THEN <<numbers[1], numbers[2]>>
        ELSE IF ranged /\ Len(numbers) = 1 THEN <<<<"0">>, numbers[1]>>
        ELSE IF Contains(normalized, <<">">>)
             THEN <<IF numbers # <<>> THEN numbers[1] ELSE Empty, Empty>>
        ELSE IF numbers # <<>> THEN <<numbers[1], Empty>>
        ELSE <<Empty, Empty>>

\* Mutant: a range with one number has no lower bound.
ParseTierBounds_EmptyLow(tier_text) ==
    LET normalized == Strip(tier_text)
        found == FindNumbers(normalized, 1)
        numbers == [k \in 1..Len(found) |-> RemoveCommas(found[k])]
        ranged == \E symbol \in RangeSymbols : Contains(normalized, symbol)
    IN  IF normalized = Empty THEN <<Empty, Empty>>
        ELSE IF Lower(normalized) = AllWord THEN <<Empty, Empty>>
        ELSE IF Contains(normalized, <<">">>)
             THEN <<IF numbers # <<>> THEN numbers[1] ELSE Empty, Empty>>
        ELSE IF ranged /\ Len(numbers) >= 2 THEN <<numbers[1], numbers[2]>>
        ELSE IF ranged /\ Len(numbers) = 1 THEN <<Empty, numbers[1]>>
        ELSE IF numbers # <<>> THEN <<numbers[1], Empty>>
        ELSE <<Empty, Empty>>

\* Mutant: a range with one number takes it as the lower bound.
ParseTierBounds_SingleAsLow(tier_text) ==
    LET normalized == Strip(tier_text)
        found == FindNumbers(normalized, 1)
        numbers == [k \in 1..Len(found) |-> RemoveCommas(found[k])]
        ranged == \E symbol \in RangeSymbols : Contains(normalized, symbol)
    IN  IF normalized = Empty THEN <<Empty, Empty>>
        ELSE IF Lower(normalized) = AllWord THEN <<Empty, Empty>>
        ELSE IF Contains(normalized, <<">">>)
             THEN <<IF numbers # <<>> THEN numbers[1] ELSE Empty, Empty>>
        ELSE IF ranged /\ Len(numbers) >= 2 THEN <<numbers[1], numbers[2]>>
        ELSE IF ranged /\ Len(numbers) = 1 THEN <<numbers[1], Empty>>
        ELSE IF numbers # <<>> THEN <<numbers[1], Empty>>
        ELSE <<Empty, Empty>>

\* Mutant: a range marker without a number gives the lower bound "0".
ParseTierBounds_ZeroForMarker(tier_text) ==
    LET normalized == Strip(tier_text)
        found == FindNumbers(normalized, 1)
        numbers == [k \in 1..Len(found) |-> RemoveCommas(found[k])]
        ranged == \E symbol \in RangeSymbols : Contains(normalized, symbol)
    IN  IF normalized = Empty THEN <<Empty, Empty>>
        ELSE IF Lower(normalized) = AllWord THEN <<Empty, Empty>>
        ELSE IF Contains(normalized, <<">">>)
             THEN <<IF numbers # <<>> THEN numbers[1] ELSE Empty, Empty>>
        ELSE IF ranged /\ Len(numbers) >= 2 THEN <<numbers[1], numbers[2]>>
        ELSE IF ranged /\ Len(numbers) = 1 THEN <<<<"0">>, numbers[1]>>
        ELSE IF ranged THEN <<<<"0">>, Empty>>
        ELSE IF numbers # <<>> THEN <<numbers[1], Empty>>
        ELSE <<Empty, Empty>>

ParseTierBounds(tier_text) ==
    LET normalized == Strip(tier_text)
        found == FindNumbers(normalized, 1)
        numbers == [k \in 1..Len(found) |-> RemoveCommas(found[k])]
        ranged == \E symbol \in RangeSymbols : Contains(normalized, symbol)
    IN  IF normalized = Empty THEN <<Empty, Empty>>
        ELSE IF Lower(normalized) = AllWord THEN <<Empty, Empty>>
        ELSE IF Contains(normalized, <<">">>)
             THEN <<IF numbers # <<>> THEN numbers[1] ELSE Empty, Empty>>
        ELSE IF ranged /\ Len(numbers) >= 2 THEN <<numbers[1], numbers[2]>>
        ELSE IF ranged /\ Len(numbers) = 1 THEN <<<<"0">>, numbers[1]>>
        ELSE IF numbers # <<>> THEN <<numbers[1], Empty>>
        ELSE <<Empty, Empty>>

-----------------------------------------------------------------------------
(* Exceptions and _extract_table_after_heading                             *)

NoError == [kind |-> "none", message |-> "none"]

\* raise ValueError(f"Heading '{heading}' not found in supplied HTML")
HeadingNotFound == [kind |-> "ValueError", message |-> "Heading not found in supplied HTML"]

\* raise ValueError(f"No table found after heading '{heading}'")
TableNotFound == [kind |-> "ValueError", message |-> "No table found after heading"]

\* raise ValueError("Table does not contain a <tbody> section")
MissingBody == [kind |-> "ValueError", message |-> "Table does not contain a <tbody> section"]

\* _ensure_valid: raise ValueError(f"Parsed {len(rows)} rows for {config.name},
\* expected at least {config.minimum_rows}")
TooFewRows == [kind |-> "ValueError", message |-> "Parsed rows, expected at least minimum_rows"]

\* _ensure_valid: raise ValueError(f"No rows found for
\* {config.required_currency} in {config.name} data set")
NoRequiredCurrency == [kind |-> "ValueError", message |-> "No rows found for required_currency"]

\* _resolve_sources: raise KeyError(f"Unknown source '{name}'")
UnknownSource == [kind |-> "KeyError", message |-> "Unknown source"]

\* The fetcher raises (fetch_html: urlopen fails).
FetchFailed == [kind |-> "URLError", message |-> "urlopen error"]

\* What a call gives: the value it returns, or the exception that leaves it.
Returns(value) == [raised |-> NoError, value |-> value]

Raises(error) == [raised |-> error, value |-> <<>>]

UpperCase ==
    <<"A", "B", "C", "D", "E", "F", "G", "H", "I", "J", "K", "L", "M",
      "N", "O", "P", "Q", "R", "S", "T", "U", "V", "W", "X", "Y", "Z">>

LowerCase ==
    <<"a", "b", "c", "d", "e", "f", "g", "h", "i", "j", "k", "l", "m",
      "n", "o", "p", "q", "r", "s", "t", "u", "v", "w", "x", "y", "z">>

FoldMap == [c \in {UpperCase[k] : k \in 1..26} |->
               LowerCase[CHOOSE k \in 1..26 : UpperCase[k] = c]]

\* re.IGNORECASE: an ASCII letter matches in both cases.
IgnoreCase(c) == IF c \in DOMAIN FoldMap THEN FoldMap[c] ELSE c

\* \w of the regular expressions, on the characters the model uses.
WordChar == {UpperCase[k] : k \in 1..26} \cup {LowerCase[k] : k \in 1..26} \cup Digit \cup {"_"}

\* The text with every letter in lower case: the regular expressions that are
\* compiled with re.IGNORECASE are matched on it, with patterns in lower case.
Fold(t) == [i \in 1..Len(t) |-> IgnoreCase(t[i])]

\* The literal `sub` matches at index i of the folded text, inside 1..upto.
MatchesAt(low, i, upto, sub) ==
    /\ i + Len(sub) - 1 <= upto
    /\ low[i] = sub[1]
    /\ SubSeq(low, i, i + Len(sub) - 1) = sub

\* The indices of from..upto at which one of the literals matches.
Occurrences(low, from, upto, subs) ==
    {i \in from..upto : \E sub \in subs : MatchesAt(low, i, upto, sub)}

TableOpen == <<"<", "t", "a", "b", "l", "e">>

TableClose == <<"<", "/", "t", "a", "b", "l", "e", ">">>

\* re: <table\b.*?</table> with IGNORECASE | DOTALL, searched from pos. An
\* opening matches where no word character follows "<table"; the lazy .*?
\* stops at the first closing tag after it.
TableSearch(t, pos) ==
    LET low == Fold(t)
        closes == Occurrences(low, pos, Len(t), {TableClose})
        opens == {i \in Occurrences(low, pos, Len(t), {TableOpen}) :
                     /\ i + Len(TableOpen) <= Len(t) => t[i + Len(TableOpen)] \notin WordChar
                     /\ \E j \in closes : j >= i + Len(TableOpen)}
    IN  IF opens = {} THEN NoMatch
        ELSE LET i == Min(opens)
                 j == Min({c \in closes : c >= i + Len(TableOpen)})
             IN  [found |-> TRUE, group0 |-> SubSeq(t, i, j + Len(TableClose) - 1)]

\* Mutant: the table is searched from the start of the document.
ExtractTableAfterHeading_AnyTable(html, heading) ==
    LET matches == Occurrences(Fold(html), 1, Len(html), {Fold(heading)})
    IN  IF matches = {} THEN Raises(HeadingNotFound)
        ELSE LET table_match == TableSearch(html, 1)
             IN  IF ~table_match.found THEN Raises(TableNotFound)
                 ELSE Returns(table_match.group0)

\* _extract_table_after_heading (lines 59-68).
ExtractTableAfterHeading(html, heading) ==
    LET matches == Occurrences(Fold(html), 1, Len(html), {Fold(heading)})
    IN  IF matches = {} THEN Raises(HeadingNotFound)
        ELSE LET table_match == TableSearch(html, Min(matches) + Len(heading))
             IN  IF ~table_match.found THEN Raises(TableNotFound)
                 ELSE Returns(table_match.group0)

GlobalInterestRates == <<"G", "l", "o", "b", "a", "l", " ", "I", "n", "t", "e", "r", "e", "s", "t", " ", "R", "a", "t", "e", "s">>

InterestChargedOnMarginLoans == <<"I", "n", "t", "e", "r", "e", "s", "t", " ", "C", "h", "a", "r", "g", "e", "d", " ", "o", "n", " ", "M", "a", "r", "g", "i", "n", " ", "L", "o", "a", "n", "s">>

\* The heading parse_interest_rates and parse_margin_rates look for.
Heading(p) == IF p = "interest" THEN GlobalInterestRates ELSE InterestChargedOnMarginLoans

-----------------------------------------------------------------------------
(* _iter_rows and _clean_cell                                              *)

\* re: <X[^>]*>(.*?)</X> with IGNORECASE | DOTALL, X one of `opens` with the
\* closing tags `closes`, searched in from..upto of the folded text. [^>]*
\* runs to the first ">" and the lazy (.*?) to the first closing tag after
\* it: group 1 is first..last, and `stop` is the index after the match.
ElementSearch(low, from, upto, opens, closes) ==
    LET ends == {k \in from..upto : low[k] = ">"}
        closings == Occurrences(low, from, upto, closes)
        starts == {i \in Occurrences(low, from, upto, opens) :
                      \E g \in ends : g > i /\ \E c \in closings : c > g}
    IN  IF starts = {} THEN NoMatch
        ELSE LET i == Min(starts)
                 g == Min({k \in ends : k > i})
                 c == Min({k \in closings : k > g})
                 e == Min({k \in ends : k > c})
             IN  [found |-> TRUE, first |-> g + 1, last |-> c - 1, stop |-> e + 1]

\* finditer / findall: group 1 of the successive matches, left to right.
RECURSIVE ElementsFrom(_, _, _, _, _)
ElementsFrom(low, from, upto, opens, closes) ==
    LET match == ElementSearch(low, from, upto, opens, closes)
    IN  IF ~match.found THEN <<>>
        ELSE <<match>> \o ElementsFrom(low, match.stop, upto, opens, closes)

\* re.sub(r"<[^>]+>", "", t): every "<", one or more characters other than
\* ">", and ">" is removed, left to right.
RECURSIVE RemoveTags(_, _)
RemoveTags(t, i) ==
    IF i > Len(t) THEN <<>>
    ELSE LET closers == {g \in (i + 2)..Len(t) : t[g] = ">"}
         IN  IF t[i] = "<" /\ closers # {} /\ t[i + 1] # ">"
             THEN RemoveTags(t, Min(closers) + 1)
             ELSE <<t[i]>> \o RemoveTags(t, i + 1)

\* The character references of the model's documents and what html.unescape
\* puts in their place ("U+00A0" is the no-break space).
CharacterReferences ==
    {<<<<"&", "g", "t", ";">>, ">">>, <<<<"&", "l", "t", ";">>, "<">>, <<<<"&", "a", "m", "p", ";">>, "&">>, <<<<"&", "n", "b", "s", "p", ";">>, "U+00A0">>}

RECURSIVE Unescape(_, _)
Unescape(t, i) ==
    IF i > Len(t) THEN <<>>
    ELSE LET refs == {r \in CharacterReferences :
                         /\ i + Len(r[1]) - 1 <= Len(t)
                         /\ SubSeq(t, i, i + Len(r[1]) - 1) = r[1]}
         IN  IF refs = {} THEN <<t[i]>> \o Unescape(t, i + 1)
             ELSE LET r == CHOOSE x \in refs : TRUE
                  IN  <<r[2]>> \o Unescape(t, i + Len(r[1]))

\* re.sub(r"\s+", " ", t): each run of whitespace becomes one space.
RECURSIVE CollapseSpace(_, _)
CollapseSpace(t, i) ==
    IF i > Len(t) THEN <<>>
    ELSE IF t[i] \in Space THEN <<" ">> \o CollapseSpace(t, SkipChars(t, i, Space))
    ELSE <<t[i]>> \o CollapseSpace(t, i + 1)

\* _clean_cell (lines 88-93).
CleanCell(cell_html) ==
    LET untagged == RemoveTags(cell_html, 1)
        unescaped == Unescape(untagged, 1)
        spaced == [i \in 1..Len(unescaped) |->
                      IF unescaped[i] = "U+00A0" THEN " " ELSE unescaped[i]]
    IN  Strip(CollapseSpace(spaced, 1))

\* The body of the loop of _iter_rows on every row of tbody, which is group 1
\* of tbody_match: the rows with at least one cell, each cell cleaned.
RowsOfBody(table_html, low, tbody_match) ==
    LET row_matches == ElementsFrom(low, tbody_match.first, tbody_match.last, {<<"<", "t", "r">>}, {<<"<", "/", "t", "r", ">">>})
        cellsOf(row_match) ==
            LET cell_matches == ElementsFrom(low, row_match.first, row_match.last,
                                             {<<"<", "t", "d">>, <<"<", "t", "h">>}, {<<"<", "/", "t", "d", ">">>, <<"<", "/", "t", "h", ">">>})
            IN  [k \in 1..Len(cell_matches) |->
                    CleanCell(SubSeq(table_html, cell_matches[k].first, cell_matches[k].last))]
    IN  SelectSeq([k \in 1..Len(row_matches) |-> cellsOf(row_matches[k])],
                  LAMBDA cells : cells # <<>>)

\* Mutant: a table without a tbody section has no rows.
IterRows_NoBodyNoRows(table_html) ==
    LET low == Fold(table_html)
        tbody_match == ElementSearch(low, 1, Len(low), {<<"<", "t", "b", "o", "d", "y">>}, {<<"<", "/", "t", "b", "o", "d", "y", ">">>})
    IN  IF ~tbody_match.found THEN Returns(<<>>)
        ELSE Returns(RowsOfBody(table_html, low, tbody_match))

\* _iter_rows (lines 71-85), run to exhaustion.
IterRows(table_html) ==
    LET low == Fold(table_html)
        tbody_match == ElementSearch(low, 1, Len(low), {<<"<", "t", "b", "o", "d", "y">>}, {<<"<", "/", "t", "b", "o", "d", "y", ">">>})
    IN  IF ~tbody_match.found THEN Raises(MissingBody)
        ELSE Returns(RowsOfBody(table_html, low, tbody_match))

-----------------------------------------------------------------------------
(* RateRow.to_csv_row and rows_to_csv                                      *)

CSV_HEADER == <<"D", "a", "t", "e", ",", "C", "u", "r", "r", "e", "n", "c", "y", ",", "T", "i", "e", "r", "L", "o", "w", ",", "T", "i", "e", "r", "H", "i", "g", "h", ",", "R", "a", "t", "e", ",", "B", "e", "n", "c", "h", "m", "a", "r", "k", "D", "i", "f", "f">>

\* separator.join(parts)
RECURSIVE Join(_, _)
Join(parts, separator) ==
    IF parts = <<>> THEN <<>>
    ELSE IF Len(parts) = 1 THEN parts[1]
    ELSE parts[1] \o separator \o Join(Tail(parts), separator)

\* RateRow.to_csv_row (lines 39-49).
ToCsvRow(row) ==
    Join(<<row.date, row.currency, row.tier_low, row.tier_high, row.rate, row.benchmark_diff>>,
         <<",">>)

\* Mutant: the lines are joined without a newline after the last one.
RowsToCsv_NoFinalNewline(rs) ==
    Join(<<CSV_HEADER>> \o [k \in 1..Len(rs) |-> ToCsvRow(rs[k])], <<"\n">>)

\* rows_to_csv (lines 183-186).
RowsToCsv(rs) ==
    Join(<<CSV_HEADER>> \o [k \in 1..Len(rs) |-> ToCsvRow(rs[k])], <<"\n">>) \o <<"\n">>

-----------------------------------------------------------------------------
(* update.py: the sources, _resolve_sources and _ensure_valid              *)

\* SourceConfig.minimum_rows and SourceConfig.required_currency (defaults).
MinimumRows == 20

RequiredCurrency == <<"U", "S", "D">>

SourceConfig(name, url, filename, parse, dataset, region) ==
    [name |-> name, url |-> url, filename |-> filename, parser |-> parse,
     dataset |-> dataset, region |-> region,
     minimum_rows |-> MinimumRows, required_currency |-> RequiredCurrency]

\* The keys of SOURCES in insertion order.
SourceOrder == <<"ca-interest", "ca-margin", "us-interest", "us-margin">>

SourceNames == {SourceOrder[k] : k \in 1..Len(SourceOrder)}

SOURCES ==
    [name \in SourceNames |->
        CASE name = "ca-interest" ->
                 SourceConfig(name, "interactivebrokers.ca/en/accounts/fees/pricing-interest-rates.php",
                              <<"i", "b", "k", "r", "-", "c", "a", "n", "a", "d", "a", "-", "i", "n", "t", "e", "r", "e", "s", "t", "-", "r", "a", "t", "e", "s", ".", "c", "s", "v">>, "interest", "interest", "Canada")
          [] name = "ca-margin" ->
                 SourceConfig(name, "interactivebrokers.ca/en/trading/margin-rates.php",
                              <<"i", "b", "k", "r", "-", "c", "a", "n", "a", "d", "a", "-", "m", "a", "r", "g", "i", "n", "-", "r", "a", "t", "e", "s", ".", "c", "s", "v">>, "margin", "margin", "Canada")
          [] name = "us-interest" ->
                 SourceConfig(name, "interactivebrokers.com/en/accounts/fees/pricing-interest-rates.php",
                              <<"i", "b", "k", "r", "-", "u", "s", "-", "i", "n", "t", "e", "r", "e", "s", "t", "-", "r", "a", "t", "e", "s", ".", "c", "s", "v">>, "interest", "interest", "US")
          [] name = "us-margin" ->
                 SourceConfig(name, "interactivebrokers.com/en/trading/margin-rates.php",
                              <<"i", "b", "k", "r", "-", "u", "s", "-", "m", "a", "r", "g", "i", "n", "-", "r", "a", "t", "e", "s", ".", "c", "s", "v">>, "margin", "margin", "US")]

\* The argument source_names: None, or a list of names.
NoSourceNames == [given |-> FALSE, names |-> <<>>]

SourceNameList(names) == [given |-> TRUE, names |-> names]

\* Mutant: the sources are resolved in reverse order.
ResolveSources_Reversed(names) ==
    IF ~names.given
    THEN Returns([k \in 1..Len(SourceOrder) |-> SOURCES[SourceOrder[Len(SourceOrder) + 1 - k]]])
    ELSE IF \E k \in 1..Len(names.names) : names.names[k] \notin SourceNames
    THEN Raises(UnknownSource)
    ELSE Returns([k \in 1..Len(names.names) |-> SOURCES[names.names[Len(names.names) + 1 - k]]])

\* _resolve_sources (lines 73-81).
ResolveSources(names) ==
    IF ~names.given THEN Returns([k \in 1..Len(SourceOrder) |-> SOURCES[SourceOrder[k]]])
    ELSE IF \E k \in 1..Len(names.names) : names.names[k] \notin SourceNames
    THEN Raises(UnknownSource)
    ELSE Returns([k \in 1..Len(names.names) |-> SOURCES[names.names[k]]])

\* Mutant: only the required currency is checked.
EnsureValid_AnyCount(rs, config) ==
    IF ~\E k \in 1..Len(rs) : rs[k].currency = config.required_currency
    THEN NoRequiredCurrency
    ELSE NoError

\* Mutant: only the number of rows is checked.
EnsureValid_AnyCurrency(rs, config) ==
    IF Len(rs) < config.minimum_rows THEN TooFewRows ELSE NoError

\* _ensure_valid (lines 84-92): the exception it raises, or NoError.
EnsureValid(rs, config) ==
    IF Len(rs) < config.minimum_rows THEN TooFewRows
    ELSE IF ~\E k \in 1..Len(rs) : rs[k].currency = config.required_currency
    THEN NoRequiredCurrency
    ELSE NoError

-----------------------------------------------------------------------------
(* update.py: _update_readme_links                                         *)

EndsWith(t, suffix) ==
    Len(suffix) <= Len(t) /\ SubSeq(t, Len(t) - Len(suffix) + 1, Len(t)) = suffix

\* _snapshot_prefix (lines 101-106).
SnapshotPrefix(filename) ==
    IF EndsWith(filename, <<"-", "i", "n", "t", "e", "r", "e", "s", "t", "-", "r", "a", "t", "e", "s", ".", "c", "s", "v">>)
    THEN SubSeq(filename, 1, Len(filename) - Len(<<"-", "i", "n", "t", "e", "r", "e", "s", "t", "-", "r", "a", "t", "e", "s", ".", "c", "s", "v">>))
    ELSE IF EndsWith(filename, <<"-", "m", "a", "r", "g", "i", "n", "-", "r", "a", "t", "e", "s", ".", "c", "s", "v">>)
    THEN SubSeq(filename, 1, Len(filename) - Len(<<"-", "m", "a", "r", "g", "i", "n", "-", "r", "a", "t", "e", "s", ".", "c", "s", "v">>))
    ELSE filename

UpperChar(c) ==
    IF \E k \in 1..26 : LowerCase[k] = c
    THEN UpperCase[CHOOSE k \in 1..26 : LowerCase[k] = c]
    ELSE c

IsLetter(c) == \E k \in 1..26 : LowerCase[k] = c \/ UpperCase[k] = c

\* _format_region_label (lines 109-112): str.upper() for up to three
\* characters, else str.title().
FormatRegionLabel(region_slug) ==
    IF Len(region_slug) <= 3 THEN [i \in 1..Len(region_slug) |-> UpperChar(region_slug[i])]
    ELSE [i \in 1..Len(region_slug) |->
             IF i = 1 \/ ~IsLetter(region_slug[i - 1])
             THEN UpperChar(region_slug[i])
             ELSE IgnoreCase(region_slug[i])]

\* str.removeprefix("ibkr-")
RemovePrefix(t, prefix) ==
    IF Len(prefix) <= Len(t) /\ SubSeq(t, 1, Len(prefix)) = prefix
    THEN SubSeq(t, Len(prefix) + 1, Len(t))
    ELSE t

\* The order of characters in sorted(): "-" comes before the lower-case letters.
CharOrder == <<"-">> \o LowerCase

CharRank(c) == CHOOSE k \in 1..Len(CharOrder) : CharOrder[k] = c

\* a < b for strings.
RECURSIVE StringLess(_, _)
StringLess(a, b) ==
    IF b = <<>> THEN FALSE
    ELSE IF a = <<>> THEN TRUE
    ELSE IF a[1] # b[1] THEN CharRank(a[1]) < CharRank(b[1])
    ELSE StringLess(Tail(a), Tail(b))

\* sorted(keys)
RECURSIVE SortedStrings(_)
SortedStrings(keys) ==
    IF keys = {} THEN <<>>
    ELSE LET least == CHOOSE a \in keys : \A b \in keys \ {a} : StringLess(a, b)
         IN  <<least>> \o SortedStrings(keys \ {least})

\* The directory of README.md (output_root.parent) and output_root, as lists
\* of path components.
RepoRoot == <<<<"r", "e", "p", "o">>>>

OutputRoot == RepoRoot \o <<<<"d", "a", "t", "a">>>>

\* date_dir (line 144): output_root / resolved_date.strftime("%Y/%m/%d"),
\* for a date given as isoformat() writes it.
DateDirPath(date) ==
    OutputRoot \o <<SubSeq(date, 1, 4), SubSeq(date, 6, 7), SubSeq(date, 9, 10)>>

\* Mutant: the file is put under output_root itself.
CsvPath_NoDateDir(date, filename) == OutputRoot \o <<filename>>

\* output_path (line 154): date_dir / config.filename
CsvPath(date, filename) == DateDirPath(date) \o <<filename>>

\* written[name] for a name among the keys of `written`: the dict keeps one
\* value per key.
WrittenPath(wr, name) ==
    wr[CHOOSE k \in 1..Len(wr) : wr[k].name = name].path

WrittenNames(wr) == {wr[k].name : k \in 1..Len(wr)}

\* Lines 165-181: the prefixes for which both datasets were written, with
\* the two paths.
CompletePairs(wr) ==
    LET prefixes == {SnapshotPrefix(SOURCES[name].filename) : name \in WrittenNames(wr) \cap SourceNames}
        pathOf(prefix, dataset) ==
            {WrittenPath(wr, name) : name \in {n \in WrittenNames(wr) \cap SourceNames :
                /\ SnapshotPrefix(SOURCES[n].filename) = prefix
                /\ SOURCES[n].dataset = dataset}}
    IN  {[prefix |-> prefix,
          interest |-> CHOOSE path \in pathOf(prefix, "interest") : TRUE,
          margin |-> CHOOSE path \in pathOf(prefix, "margin") : TRUE] :
            prefix \in {x \in prefixes : pathOf(x, "interest") # {} /\ pathOf(x, "margin") # {}}}

\* Path.relative_to raises ValueError for a path that is not below the other.
NotRelative == [kind |-> "ValueError", message |-> "is not in the subpath of"]

IsRelativeTo(path, root) ==
    Len(root) <= Len(path) /\ SubSeq(path, 1, Len(root)) = root

\* relative_pairs (lines 191-201).
RelativePairs(pairs) ==
    IF \E pair \in pairs : ~IsRelativeTo(pair.interest, RepoRoot) \/ ~IsRelativeTo(pair.margin, RepoRoot)
    THEN Raises(NotRelative)
    ELSE Returns({[prefix |-> pair.prefix,
                   interest |-> SubSeq(pair.interest, Len(RepoRoot) + 1, Len(pair.interest)),
                   margin |-> SubSeq(pair.margin, Len(RepoRoot) + 1, Len(pair.margin))] : pair \in pairs})

\* Path.as_posix()
AsPosix(path) == Join(path, <<"/">>)

\* Line 123: one part of the sentence.
SnapshotPart(region_label, interest_rel, margin_rel) ==
    region_label \o <<":", " ", "[", "U+0060">> \o interest_rel \o <<"U+0060", "]", "(">> \o interest_rel
        \o <<")", " ", "a", "n", "d", " ", "[", "U+0060">> \o margin_rel \o <<"U+0060", "]", "(">> \o margin_rel \o <<")">>

\* Mutant: the parts are listed in reverse order of prefix.
BuildSnapshotSentence_Reversed(pairs) ==
    LET order == SortedStrings({pair.prefix : pair \in pairs})
        pairOf(prefix) == CHOOSE pair \in pairs : pair.prefix = prefix
    IN  Join([k \in 1..Len(order) |->
                 SnapshotPart(FormatRegionLabel(RemovePrefix(order[Len(order) + 1 - k], <<"i", "b", "k", "r", "-">>)),
                              AsPosix(pairOf(order[Len(order) + 1 - k]).interest),
                              AsPosix(pairOf(order[Len(order) + 1 - k]).margin))],
             <<";", " ">>)

\* _build_snapshot_sentence (lines 115-125): one part per pair, sorted by
\* prefix, joined by "; ".
BuildSnapshotSentence(pairs) ==
    LET order == SortedStrings({pair.prefix : pair \in pairs})
        pairOf(prefix) == CHOOSE pair \in pairs : pair.prefix = prefix
    IN  Join([k \in 1..Len(order) |->
                 SnapshotPart(FormatRegionLabel(RemovePrefix(order[k], <<"i", "b", "k", "r", "-">>)),
                              AsPosix(pairOf(order[k]).interest),
                              AsPosix(pairOf(order[k]).margin))],
             <<";", " ">>)

\* README.md: whether it exists, its text, and how often write_text was
\* called on it.
NoReadme == [exists |-> FALSE, text |-> <<>>, writes |-> 0]

Readme(readme_text) == [exists |-> TRUE, text |-> readme_text, writes |-> 0]

\* updated_line (lines 203-206).
UpdatedLine(pairs) ==
    <<"T", "h", "i", "s", " ", "r", "e", "p", "o", "s", "i", "t", "o", "r", "y", " ", "c", "o", "n", "t", "a", "i", "n", "s", " ", "t", "h", "e", " ", "d", "a", "i", "l", "y", " ", "I", "B", "K", "R", " ", "C", "a", "n", "a", "d", "a", " ", "a", "n", "d", " ", "U", "S", " ", "i", "n", "t", "e", "r", "e", "s", "t", " ", "a", "n", "d", " ", "m", "a", "r", "g", "i", "n", " ", "r", "a", "t", "e", "s", ",", " ">>
        \o <<"w", "i", "t", "h", " ", "t", "h", "e", " ", "l", "a", "t", "e", "s", "t", " ", "s", "n", "a", "p", "s", "h", "o", "t", "s", " ", "a", "v", "a", "i", "l", "a", "b", "l", "e", " ", "i", "n", " ">> \o BuildSnapshotSentence(pairs) \o <<".">>

\* The pattern of line 210, in its three literal parts; " and US" is optional
\* and .* follows.
PatternHead == <<"T", "h", "i", "s", " ", "r", "e", "p", "o", "s", "i", "t", "o", "r", "y", " ", "c", "o", "n", "t", "a", "i", "n", "s", " ", "t", "h", "e", " ", "d", "a", "i", "l", "y", " ", "I", "B", "K", "R", " ", "C", "a", "n", "a", "d", "a">>

PatternAndUS == <<" ", "a", "n", "d", " ", "U", "S">>

PatternRest == <<" ", "i", "n", "t", "e", "r", "e", "s", "t", " ", "a", "n", "d", " ", "m", "a", "r", "g", "i", "n", " ", "r", "a", "t", "e", "s", ",">>

\* What .* takes from index `from` on: all characters before the next
\* newline. The index of the last of them (from - 1 when there is none).
LineEnd(t, from) ==
    LET breaks == {k \in from..Len(t) : t[k] = "\n"}
    IN  IF breaks = {} THEN Len(t) ELSE Min(breaks) - 1

\* The index at which a match of the pattern that starts at i ends, or 0 when
\* none starts there.
PatternMatchAt(t, i) ==
    LET a == i + Len(PatternHead)
        b == a + Len(PatternAndUS)
    IN  IF ~MatchesAt(t, i, Len(t), PatternHead) THEN 0
        ELSE IF MatchesAt(t, a, Len(t), PatternAndUS) /\ MatchesAt(t, b, Len(t), PatternRest)
        THEN LineEnd(t, b + Len(PatternRest))
        ELSE IF MatchesAt(t, a, Len(t), PatternRest)
        THEN LineEnd(t, a + Len(PatternRest))
        ELSE 0

\* Mutant: every match is replaced, not only the first.
Subn_EveryMatch(t, repl) ==
    LET starts == {i \in 1..Len(t) : PatternMatchAt(t, i) # 0}
        RECURSIVE from(_)
        from(i) ==
            IF i > Len(t) THEN <<>>
            ELSE IF i \in starts THEN repl \o from(PatternMatchAt(t, i) + 1)
            ELSE <<t[i]>> \o from(i + 1)
    IN  [count |-> IF starts = {} THEN 0 ELSE 1, text |-> from(1)]

\* Mutant: .* is not part of the match, so the rest of the line stays.
Subn_KeepRestOfLine(t, repl) ==
    LET starts == {i \in 1..Len(t) : PatternMatchAt(t, i) # 0}
        first == Min(starts)
        last == IF MatchesAt(t, first + Len(PatternHead), Len(t), PatternRest)
                THEN first + Len(PatternHead) + Len(PatternRest) - 1
                ELSE first + Len(PatternHead) + Len(PatternAndUS) + Len(PatternRest) - 1
    IN  IF starts = {} THEN [count |-> 0, text |-> t]
        ELSE [count |-> 1,
              text |-> SubSeq(t, 1, first - 1) \o repl \o SubSeq(t, last + 1, Len(t))]

\* pattern.subn(updated_line, readme_text, count=1) (line 212): the leftmost
\* match is replaced. The replacement holds no backslash, so it is inserted
\* as it is.
Subn(t, repl) ==
    LET starts == {i \in 1..Len(t) : PatternMatchAt(t, i) # 0}
        first == Min(starts)
        last == PatternMatchAt(t, first)
    IN  IF starts = {} THEN [count |-> 0, text |-> t]
        ELSE [count |-> 1,
              text |-> SubSeq(t, 1, first - 1) \o repl \o SubSeq(t, last + 1, Len(t))]

\* Mutant: README.md is written whenever the pattern matched.
UpdateReadmeLinks_AlwaysWrite(rm, wr) ==
    LET complete_pairs == CompletePairs(wr)
        relative_pairs == RelativePairs(complete_pairs)
        replaced == Subn(rm.text, UpdatedLine(relative_pairs.value))
    IN  IF complete_pairs = {} THEN rm
        ELSE IF ~rm.exists THEN rm
        ELSE IF relative_pairs.raised # NoError THEN rm
        ELSE IF replaced.count = 0 THEN rm
        ELSE [rm EXCEPT !.text = replaced.text, !.writes = @ + 1]

\* Mutant: a prefix with one dataset is listed with the path it has.
UpdateReadmeLinks_HalfPairs(rm, wr) ==
    LET half == {[prefix |-> SnapshotPrefix(SOURCES[name].filename),
                  interest |-> WrittenPath(wr, name),
                  margin |-> WrittenPath(wr, name)] : name \in WrittenNames(wr) \cap SourceNames}
        complete_pairs == IF CompletePairs(wr) # {} THEN CompletePairs(wr)
                          ELSE {pair \in half : \A other \in half : other.prefix = pair.prefix => other = pair}
        relative_pairs == RelativePairs(complete_pairs)
        replaced == Subn(rm.text, UpdatedLine(relative_pairs.value))
    IN  IF complete_pairs = {} THEN rm
        ELSE IF ~rm.exists THEN rm
        ELSE IF relative_pairs.raised # NoError THEN rm
        ELSE IF replaced.count = 0 THEN rm
        ELSE IF replaced.text # rm.text
        THEN [rm EXCEPT !.text = replaced.text, !.writes = @ + 1]
        ELSE rm

\* _update_readme_links (lines 162-217): the README.md after the call.
UpdateReadmeLinks(rm, wr) ==
    LET complete_pairs == CompletePairs(wr)
        relative_pairs == RelativePairs(complete_pairs)
        replaced == Subn(rm.text, UpdatedLine(relative_pairs.value))
    IN  IF complete_pairs = {} THEN rm
        ELSE IF ~rm.exists THEN rm
        ELSE IF relative_pairs.raised # NoError THEN rm
        ELSE IF replaced.count = 0 THEN rm
        ELSE IF replaced.text # rm.text
        THEN [rm EXCEPT !.text = replaced.text, !.writes = @ + 1]
        ELSE rm

-----------------------------------------------------------------------------
(* _rows_from_cells, called by parse_interest_rates and parse_margin_rates *)

\* len(cells) < 3: the row is skipped.
MinCells == 3

RateRow(date, currency, tier_low, tier_high, rate, benchmark_diff) ==
    [date |-> date, currency |-> currency, tier_low |-> tier_low,
     tier_high |-> tier_high, rate |-> rate, benchmark_diff |-> benchmark_diff]

\* Mutant: a blank currency cell is not replaced.
EffectiveCurrency_NoCarry(cell, last) == cell

\* The local `currency` after lines 146-148.
EffectiveCurrency(cell, last) == IF cell = Empty THEN last ELSE cell

\* Mutant: the currency cell is remembered before the length of the row is tested.
LastCurrencyAfter_BeforeSkip(cells, last) ==
    IF cells[1] = Empty THEN last ELSE cells[1]

\* Mutant: only a row that is emitted sets the carried-forward currency.
LastCurrencyAfter_OnlyEmitted(cells, last) ==
    IF Len(cells) < MinCells THEN last
    ELSE IF cells[1] = Empty THEN last
    ELSE IF cells[2] = Empty \/ ParseRate(cells[3]) = Empty THEN last
    ELSE cells[1]

\* `last_currency` after one pass of the loop body.
LastCurrencyAfter(cells, last) ==
    IF Len(cells) < MinCells THEN last
    ELSE IF cells[1] = Empty THEN last
    ELSE cells[1]

\* Mutant: the tier text is not required.
IsRetained_NoTier(currency, tier_text, rate) == currency # Empty /\ rate # Empty

\* The negation of the test of line 153.
IsRetained(currency, tier_text, rate) ==
    currency # Empty /\ tier_text # Empty /\ rate # Empty

\* Mutant: the newest row is put first.
AppendRow_Prepend(rs, row) == <<row>> \o rs

\* rows.append(row)
AppendRow(rs, row) == Append(rs, row)

\* Mutant: the interest parser passes benchmark_invert=False too.
BenchmarkInvert_Never(p) == FALSE

\* The benchmark_invert each parser passes.
BenchmarkInvert(p) == p = "interest"

USD == <<"U", "S", "D">>

EUR == <<"E", "U", "R">>

HeaderRow == <<<<"C", "u", "r", "r", "e", "n", "c", "y">>, <<"T", "i", "e", "r">>, <<"R", "a", "t", "e">>>>

FirstTierRow == <<USD, <<"0", " ", "-", " ", "1", "0", ",", "0", "0", "0">>, <<"0", "%">>>>

SecondTierRow == <<Empty, <<">", " ", "1", "0", ",", "0", "0", "0">>, <<"3", ".", "5", "8", "0", "%", " ", "(", "B", "M", " ", "-", " ", "0", ".", "5", "%", ")">>>>

SeparatorRow == <<Empty>>

NoteRow == <<EUR, <<"n", "o", "t", "e">>>>

EuroRow == <<EUR, <<"A", "l", "l">>, <<"5", ".", "0", "8", "0", "%", " ", "(", "B", "M", " ", "+", " ", "1", "%", ")">>, <<"n", "o", "t", "e">>>>

\* The cell rows _iter_rows may yield: each has at least one cell, and each
\* cell went through _clean_cell.
RowSet ==
    { HeaderRow, FirstTierRow, SecondTierRow, SeparatorRow, NoteRow, EuroRow,
      <<USD, Empty, <<"1", "%">>>>,
      <<Empty, <<"A", "l", "l">>, Empty>> }

DateStrings == {<<"2", "0", "2", "4", "-", "0", "1", "-", "0", "1">>, <<"2", "0", "2", "3", "-", "1", "2", "-", "3", "1">>}

\* No parse function and no run_update has been called.
ParserIdle ==
    /\ html_text = <<>>
    /\ cells_iter = <<>>
    /\ raised = NoError
    /\ calls = <<>>

UpdaterIdle ==
    /\ upc = "idle"
    /\ source_names = [given |-> FALSE, names |-> <<>>]
    /\ html_overrides = {}
    /\ index = 0
    /\ files = {}
    /\ written = <<>>
    /\ fetched = <<>>
    /\ readme = [exists |-> FALSE, text |-> <<>>, writes |-> 0]

CallerIdle == ParserIdle /\ UpdaterIdle

Init ==
    /\ pc = "loop"
    /\ parser \in {"interest", "margin"}
    /\ date_string \in DateStrings
    /\ consumed = <<>>
    /\ rows = <<>>
    /\ last_currency = Empty
    /\ origin = <<>>
    /\ applied = "none"
    /\ text = <<>>
    /\ invert = FALSE
    /\ result = <<>>
    /\ CallerIdle

\* One pass of the loop body of lines 143-165 on the next row of cells_iter.
NextRow(cells) ==
    /\ pc = "loop"
    /\ Len(consumed) < MaxRows
    /\ consumed' = Append(consumed, cells)
    /\ last_currency' = LastCurrencyAfter(cells, last_currency)
    /\ IF Len(cells) < MinCells
       THEN UNCHANGED <<rows, origin>>
       ELSE LET currency == EffectiveCurrency(cells[1], last_currency)
                tier_text == cells[2]
                rate_text == cells[3]
                rate == ParseRate(rate_text)
                bounds == ParseTierBounds(tier_text)
            IN  IF ~IsRetained(currency, tier_text, rate)
                THEN UNCHANGED <<rows, origin>>
                ELSE LET bm_diff == ParseBenchmarkDiff(rate_text, BenchmarkInvert(parser))
                     IN  /\ rows' = AppendRow(rows, RateRow(date_string, currency, bounds[1],
                                                            bounds[2], rate, bm_diff))
                         /\ origin' = Append(origin, Len(consumed) + 1)
    /\ UNCHANGED <<pc, parser, date_string>>
    /\ UNCHANGED interpreterVars
    /\ UNCHANGED callerVars

\* cells_iter is exhausted: return rows.
Return ==
    /\ pc = "loop"
    /\ pc' = "done"
    /\ UNCHANGED <<parser, consumed, rows, last_currency, date_string, origin>>
    /\ UNCHANGED interpreterVars
    /\ UNCHANGED callerVars

Next ==
    \/ \E cells \in RowSet : NextRow(cells)
    \/ Return

Spec == Init /\ [][Next]_vars

-----------------------------------------------------------------------------
(* The field interpreters applied to bounded texts.                        *)

BMTokens == {<<"b", "M">>, <<" ">>, <<"+">>, <<"-">>, <<"5">>, <<".">>, <<"%">>}

\* Rate cells as the pages print them.
BMExamples ==
    { <<"B", "M", " ", "-", " ", "0", ".", "5", "%">>,
      <<"B", "M", " ", "+", " ", "1", "%">>,
      <<"3", ".", "5", "8", "0", "%", " ", "(", "B", "M", " ", "-", " ", "0", ".", "5", "%", ")">>,
      <<"5", ".", "0", "8", "0", "%", " ", "(", "B", "M", " ", "+", " ", "1", "%", ")">>,
      <<"0", "%">> }

IsBMText(t) ==
    \/ \E ts \in SeqsUpTo(BMTokens, MaxBMLen) : t = Flatten(ts)
    \/ t \in BMExamples

AssemblerIdle ==
    /\ pc = "idle"
    /\ parser = "interest"
    /\ consumed = <<>>
    /\ rows = <<>>
    /\ last_currency = Empty
    /\ date_string = Empty
    /\ origin = <<>>

InitBM ==
    /\ AssemblerIdle
    /\ applied = "none"
    /\ IsBMText(text)
    /\ invert \in BOOLEAN
    /\ result = <<>>
    /\ CallerIdle

ApplyBenchmarkDiff ==
    /\ applied = "none"
    /\ applied' = "_parse_benchmark_diff"
    /\ result' = ParseBenchmarkDiff(text, invert)
    /\ UNCHANGED <<text, invert>>
    /\ UNCHANGED assemblerVars
    /\ UNCHANGED callerVars

NextBM == ApplyBenchmarkDiff

SpecBM == InitBM /\ [][NextBM]_vars

TierTokens ==
    { <<"1">>, <<"2">>, <<",">>, <<".">>, <<">">>, <<"-">>, <<"<", "=">>, <<" ">>,
      <<"U+2264">>, <<"U+00E2", "U+2030", "U+00A4">> }

\* Every spelling of a word of up to four letters a and l, bare or padded.
AllLetters == {"a", "A", "l", "L"}

AllTexts ==
    { pre \o w \o post : pre \in {<<>>, <<" ">>}, post \in {<<>>, <<" ">>, <<" ", "\t">>},
                         w \in SeqsUpTo(AllLetters, 4) }

\* Tier cells as the pages print them.
TierExamples ==
    { <<">", " ", "$", "1", "0", "0", ",", "0", "0", "0">>,
      <<"U+2264", " ", "$", "1", "0", ",", "0", "0", "0">>,
      <<"0", " ", "-", " ", "1", "0", ",", "0", "0", "0">>,
      <<"$", "1", "0", ",", "0", "0", "0", " ", "-", " ", "$", "1", "0", "0", ",", "0", "0", "0">>,
      <<">", " ", "1", "0", ",", "0", "0", "0">> }

IsTierText(t) ==
    \/ \E ts \in SeqsUpTo(TierTokens, MaxTierLen) : t = Flatten(ts)
    \/ t \in AllTexts
    \/ t \in TierExamples

InitTier ==
    /\ AssemblerIdle
    /\ applied = "none"
    /\ IsTierText(text)
    /\ invert = FALSE
    /\ result = <<>>
    /\ CallerIdle

ApplyTierBounds ==
    /\ applied = "none"
    /\ applied' = "_parse_tier_bounds"
    /\ result' = ParseTierBounds(text)
    /\ UNCHANGED <<text, invert>>
    /\ UNCHANGED assemblerVars
    /\ UNCHANGED callerVars

NextTier == ApplyTierBounds

SpecTier == InitTier /\ [][NextTier]_vars

\* _parse_rate applied to one text.
RateTokens == {<<"-">>, <<"1">>, <<"5">>, <<".">>, <<"%">>, <<" ">>}

RateExamples ==
    {Empty,
     <<"5", ".", "0", "8", "0", "%", " ", "(", "B", "M", " ", "+", " ", "1", "%", ")">>,
     <<"3", ".", "5", "8", "0", "%", " ", "(", "B", "M", " ", "-", " ", "0", ".", "5", "%", ")">>,
     <<"-", "0", ".", "2", "1", "8", "%">>,
     <<"N", "/", "A">>}

IsRateText(t) ==
    \/ \E ts \in SeqsUpTo(RateTokens, MaxRateLen) : t = Flatten(ts)
    \/ t \in RateExamples

InitRate ==
    /\ AssemblerIdle
    /\ applied = "none"
    /\ IsRateText(text)
    /\ invert = FALSE
    /\ result = <<>>
    /\ CallerIdle

ApplyRate ==
    /\ applied = "none"
    /\ applied' = "_parse_rate"
    /\ result' = ParseRate(text)
    /\ UNCHANGED <<text, invert>>
    /\ UNCHANGED assemblerVars
    /\ UNCHANGED callerVars

NextRate == ApplyRate

SpecRate == InitRate /\ [][NextRate]_vars

\* _extract_table_after_heading applied to one document.
ExtractTokens ==
    {GlobalInterestRates, <<"I", "N", "T", "E", "R", "E", "S", "T", " ", "c", "h", "a", "r", "g", "e", "d", " ", "o", "n", " ", "m", "a", "r", "g", "i", "n", " ", "l", "o", "a", "n", "s">>,
     <<"<", "t", "a", "b", "l", "e", ">", "a">>, <<"<", "T", "A", "B", "L", "E", " ", "i", "d", "=", "b", ">", "b">>, <<"<", "/", "T", "a", "b", "l", "e", ">">>, <<"<", "t", "a", "b", "l", "e", "t", ">">>}

IsExtractText(t) == \E ts \in SeqsUpTo(ExtractTokens, MaxDocLen) : t = Flatten(ts)

InitExtract ==
    /\ pc = "idle"
    /\ parser \in {"interest", "margin"}
    /\ consumed = <<>>
    /\ rows = <<>>
    /\ last_currency = Empty
    /\ date_string = Empty
    /\ origin = <<>>
    /\ applied = "none"
    /\ text = <<>>
    /\ invert = FALSE
    /\ result = <<>>
    /\ IsExtractText(html_text)
    /\ cells_iter = <<>>
    /\ raised = NoError
    /\ calls = <<>>
    /\ UpdaterIdle

ApplyExtract ==
    /\ applied = "none"
    /\ applied' = "_extract_table_after_heading"
    /\ LET outcome == ExtractTableAfterHeading(html_text, Heading(parser))
       IN  /\ result' = outcome.value
           /\ raised' = outcome.raised
    /\ UNCHANGED <<text, invert, html_text, cells_iter, calls>>
    /\ UNCHANGED assemblerVars
    /\ UNCHANGED updateVars

NextExtract == ApplyExtract

SpecExtract == InitExtract /\ [][NextExtract]_vars

-----------------------------------------------------------------------------
(* parse_interest_rates and parse_margin_rates, called on whole pages.     *)

InterestHeadingHtml == <<"<", "h", "2", ">", "G", "l", "o", "b", "a", "l", " ", "I", "n", "t", "e", "r", "e", "s", "t", " ", "R", "a", "t", "e", "s", "<", "/", "h", "2", ">">>

MarginHeadingHtml == <<"<", "H", "2", ">", "i", "n", "t", "e", "r", "e", "s", "t", " ", "c", "h", "a", "r", "g", "e", "d", " ", "o", "n", " ", "m", "a", "r", "g", "i", "n", " ", "l", "o", "a", "n", "s", "<", "/", "H", "2", ">">>

TableStartHtml == <<"<", "t", "a", "b", "l", "e", " ", "c", "l", "a", "s", "s", "=", "\"", "r", "\"", ">">>

TheadHtml == <<"<", "t", "h", "e", "a", "d", ">", "<", "t", "r", ">", "<", "t", "h", ">", "C", "u", "r", "r", "e", "n", "c", "y", "<", "/", "t", "h", ">", "<", "t", "h", ">", "T", "i", "e", "r", "<", "/", "t", "h", ">", "<", "t", "h", ">", "R", "a", "t", "e", "<", "/", "t", "h", ">", "<", "/", "t", "r", ">", "<", "/", "t", "h", "e", "a", "d", ">">>

\* A body whose second row leaves the currency cell empty.
TbodyHtml ==
    <<"<", "t", "b", "o", "d", "y", ">", "<", "t", "r", ">", "<", "t", "d", ">", "U", "S", "D", "<", "/", "t", "d", ">", "<", "t", "d", ">", "0", " ", "-", " ", "1", "0", ",", "0", "0", "0", "<", "/", "t", "d", ">", "<", "t", "d", ">", "0", "%", "<", "/", "t", "d", ">", "<", "/", "t", "r", ">", "\n", "<", "t", "r", ">", "<", "t", "d", ">", "<", "/", "t", "d", ">", "<", "t", "d", ">", "&", "g", "t", ";", "&", "n", "b", "s", "p", ";", "1", "0", ",", "0", "0", "0", "<", "/", "t", "d", ">", "<", "t", "d", ">", "<", "b", ">", "3", ".", "5", "8", "0", "%", "<", "/", "b", ">", " ", "(", "B", "M", " ", "-", " ", "0", ".", "5", "%", ")", "<", "/", "t", "d", ">", "<", "/", "t", "r", ">", "<", "/", "t", "b", "o", "d", "y", ">">>

\* A body whose first row leaves the currency cell empty.
TbodyCarryHtml ==
    <<"<", "T", "B", "O", "D", "Y", ">", "<", "T", "R", ">", "<", "T", "D", ">", " ", "<", "/", "T", "D", ">", "<", "T", "D", ">", "A", "l", "l", "<", "/", "T", "D", ">", "<", "T", "D", ">", "1", "%", "<", "/", "T", "D", ">", "<", "/", "T", "R", ">", "<", "t", "r", ">", "<", "/", "t", "r", ">", "<", "t", "r", ">", "<", "t", "d", ">", "E", "U", "R", "<", "/", "t", "d", ">", "<", "t", "d", ">", "A", "l", "l", "<", "/", "t", "d", ">", "<", "t", "d", ">", "5", ".", "0", "8", "0", "%", " ", "(", "B", "M", " ", "+", " ", "1", "%", ")", "<", "/", "t", "d", ">", "<", "t", "d", ">", "n", "o", "t", "e", "<", "/", "t", "d", ">", "<", "/", "t", "r", ">", "<", "/", "T", "B", "O", "D", "Y", ">">>

PageTokens ==
    {InterestHeadingHtml, MarginHeadingHtml, TableStartHtml, TheadHtml, TbodyHtml, TableClose}

\* The date string of a call on a page of PageTokens.
PageDate == <<"2", "0", "2", "4", "-", "0", "1", "-", "0", "1">>

CallRecord(p, html, date, outcome) ==
    [parser |-> p, html_text |-> html, date_string |-> date,
     raised |-> outcome.raised, value |-> outcome.value]

\* Mutant: last_currency keeps the value the previous call left.
LastCurrencyAtEntry_Kept(last) == last

\* Line 142: last_currency = "".
LastCurrencyAtEntry(last) == Empty

\* Mutant: a table without tbody ends the iteration without rows.
StartRows_NoBodyNoRows(table_html) == IterRows_NoBodyNoRows(table_html)

\* The first next() on the generator of _iter_rows: lines 72-74 run now.
StartRows(table_html) == IterRows(table_html)

\* Lines 170-172 (177-179) and 141-142: the table is extracted, the generator
\* is created and _rows_from_cells is entered; or the extraction raises.
ParseCall(p, html, date) ==
    /\ pc = "idle"
    /\ Len(calls) < MaxParses
    /\ parser' = p
    /\ html_text' = html
    /\ date_string' = date
    /\ \E table \in {ExtractTableAfterHeading(html, Heading(p))} :
           IF table.raised # NoError
           THEN /\ raised' = table.raised
                /\ calls' = Append(calls, CallRecord(p, html, date, Raises(table.raised)))
                /\ UNCHANGED <<pc, consumed, rows, last_currency, origin, cells_iter>>
           ELSE /\ pc' = "start"
                /\ raised' = NoError
                /\ rows' = <<>>
                /\ last_currency' = LastCurrencyAtEntry(last_currency)
                /\ consumed' = <<>>
                /\ origin' = <<>>
                /\ cells_iter' = <<>>
                /\ UNCHANGED calls
    /\ UNCHANGED interpreterVars
    /\ UNCHANGED updateVars

\* The for statement of line 143 asks the generator for its first row.
StartIteration ==
    /\ pc = "start"
    /\ \E started \in {StartRows(ExtractTableAfterHeading(html_text, Heading(parser)).value)} :
           IF started.raised # NoError
           THEN /\ pc' = "idle"
                /\ raised' = started.raised
                /\ calls' = Append(calls, CallRecord(parser, html_text, date_string,
                                                     Raises(started.raised)))
                /\ UNCHANGED cells_iter
           ELSE /\ pc' = "loop"
                /\ cells_iter' = started.value
                /\ UNCHANGED <<raised, calls>>
    /\ UNCHANGED <<parser, consumed, rows, last_currency, date_string, origin, html_text>>
    /\ UNCHANGED interpreterVars
    /\ UNCHANGED updateVars

\* The loop body on the next row of the generator.
ParseRow ==
    /\ Len(consumed) < Len(cells_iter)
    /\ NextRow(cells_iter[Len(consumed) + 1])

\* The generator is exhausted: line 166 returns rows to the caller.
ParseReturn ==
    /\ pc = "loop"
    /\ Len(consumed) = Len(cells_iter)
    /\ pc' = "idle"
    /\ calls' = Append(calls, CallRecord(parser, html_text, date_string, Returns(rows)))
    /\ UNCHANGED <<parser, consumed, rows, last_currency, date_string, origin>>
    /\ UNCHANGED <<html_text, cells_iter, raised>>
    /\ UNCHANGED interpreterVars
    /\ UNCHANGED updateVars

InitParse ==
    /\ AssemblerIdle
    /\ applied = "none"
    /\ text = <<>>
    /\ invert = FALSE
    /\ result = <<>>
    /\ CallerIdle

\* One call on any page of up to MaxPageLen tokens.
NextParse ==
    \/ /\ calls = <<>>
       /\ \E p \in {"interest", "margin"}, ts \in SeqsUpTo(PageTokens, MaxPageLen) :
             \E page \in {Flatten(ts)} : ParseCall(p, page, PageDate)
    \/ StartIteration
    \/ ParseRow
    \/ ParseReturn

SpecParse == InitParse /\ [][NextParse]_vars

\* Whole pages, parsed again and again.
InterestPage == InterestHeadingHtml \o TableStartHtml \o TbodyHtml \o TableClose

CarryPage == InterestHeadingHtml \o TableStartHtml \o TbodyCarryHtml \o TableClose

MarginPage == MarginHeadingHtml \o TableStartHtml \o TheadHtml \o TbodyCarryHtml \o TableClose

\* The calls a behaviour repeats: the parse function and its page.
Requests ==
    {<<"interest", InterestPage>>, <<"interest", CarryPage>>, <<"margin", MarginPage>>}

NextReparse ==
    \/ \E request \in Requests, date \in DateStrings :
          ParseCall(request[1], request[2], date)
    \/ StartIteration
    \/ ParseRow
    \/ ParseReturn

SpecReparse == InitParse /\ [][NextReparse]_vars

\* rows_to_csv applied to rows the parse functions can produce.
CsvRows ==
    {RateRow(<<"2", "0", "2", "4", "-", "0", "1", "-", "0", "1">>, USD, <<"0">>, <<"1", "0", "0", "0", "0">>, <<"0">>, <<"0">>),
     RateRow(<<"2", "0", "2", "4", "-", "0", "1", "-", "0", "1">>, USD, <<"1", "0", "0", "0", "0">>, Empty, <<"3", ".", "5", "8", "0">>, <<"-", "0", ".", "5">>),
     RateRow(<<"2", "0", "2", "3", "-", "1", "2", "-", "3", "1">>, <<"U", ",", "S", " ", "\"", "D", "\"">>, Empty, Empty, <<"-", "0", ".", "2", "1", "8">>, <<"1">>),
     RateRow(<<"2", "0", "2", "3", "-", "1", "2", "-", "3", "1">>, EUR, <<"0">>, <<"1", ".", "5">>, <<"5", ".", "0", "8", "0">>, <<"0">>)}

InitCsv ==
    /\ pc = "idle"
    /\ parser = "interest"
    /\ consumed = <<>>
    /\ rows \in SeqsUpTo(CsvRows, MaxCsvRows)
    /\ last_currency = Empty
    /\ date_string = Empty
    /\ origin = <<>>
    /\ applied = "none"
    /\ text = <<>>
    /\ invert = FALSE
    /\ result = <<>>
    /\ CallerIdle

ApplyCsv ==
    /\ applied = "none"
    /\ applied' = "rows_to_csv"
    /\ result' = RowsToCsv(rows)
    /\ UNCHANGED <<text, invert>>
    /\ UNCHANGED assemblerVars
    /\ UNCHANGED callerVars

NextCsv == ApplyCsv

SpecCsv == InitCsv /\ [][NextCsv]_vars

-----------------------------------------------------------------------------
(* run_update                                                              *)

\* The sources of the run: sources of line 142.
Selected == ResolveSources(source_names).value

\* date_dir.mkdir(parents=True, exist_ok=True)
DateDir(date) == [kind |-> "dir", path |-> DateDirPath(date), content |-> <<>>]

\* output_path.write_text(csv_text): the file is created or replaced.
WriteText(fs, path, content) ==
    {f \in fs : f.path # path} \cup {[kind |-> "file", path |-> path, content |-> content]}

\* written[config.name] = output_path
Put(wr, name, path) ==
    IF name \in WrittenNames(wr)
    THEN [k \in 1..Len(wr) |-> IF wr[k].name = name THEN [name |-> name, path |-> path] ELSE wr[k]]
    ELSE Append(wr, [name |-> name, path |-> path])

\* Mutant: the dated directory is made before the sources are resolved.
RunUpdate_MkdirFirst(names, overrides, date) ==
    /\ upc = "idle"
    /\ source_names' = names
    /\ html_overrides' = overrides
    /\ files' = files \cup {DateDir(date)}
    /\ IF ResolveSources(names).raised # NoError
       THEN /\ upc' = "raised"
            /\ raised' = ResolveSources(names).raised
            /\ UNCHANGED <<date_string, written, index>>
       ELSE /\ upc' = "loop"
            /\ date_string' = date
            /\ written' = <<>>
            /\ index' = 0
            /\ UNCHANGED raised
    /\ UNCHANGED <<pc, parser, consumed, rows, last_currency, origin>>
    /\ UNCHANGED interpreterVars
    /\ UNCHANGED <<html_text, cells_iter, calls, fetched, readme>>

\* Lines 141-147: the sources are resolved, the dated directory is made.
RunUpdate(names, overrides, date) ==
    /\ upc = "idle"
    /\ source_names' = names
    /\ html_overrides' = overrides
    /\ IF ResolveSources(names).raised # NoError
       THEN /\ upc' = "raised"
            /\ raised' = ResolveSources(names).raised
            /\ UNCHANGED <<date_string, files, written, index>>
       ELSE /\ upc' = "loop"
            /\ date_string' = date
            /\ files' = files \cup {DateDir(date)}
            /\ written' = <<>>
            /\ index' = 0
            /\ UNCHANGED raised
    /\ UNCHANGED <<pc, parser, consumed, rows, last_currency, origin>>
    /\ UNCHANGED interpreterVars
    /\ UNCHANGED <<html_text, cells_iter, calls, fetched, readme>>

\* What config.parser returns for a page: n rows, the one at index usd_at in
\* the required currency.
SampleRows(date, n, usd_at) ==
    [k \in 1..n |->
        RateRow(date, IF k = usd_at THEN RequiredCurrency ELSE EUR,
                <<"0">>, Empty, <<"1">>, <<"0">>)]

RowCounts == {0, MinimumRows - 1, MinimumRows}

ParseOutcomes(date) ==
    {Raises(HeadingNotFound), Raises(MissingBody)}
    \cup {Returns(SampleRows(date, n, usd_at)) : n \in RowCounts, usd_at \in {0, 1, MinimumRows}}

\* Mutant: the page is fetched also when an override is given.
HasOverride_Never(config, overrides) == FALSE

\* Lines 149-150: html_overrides.get(config.name) is not None.
HasOverride(config, overrides) == config.name \in overrides

\* Lines 148-156: one pass of the loop, on the next source. The fetcher
\* returns or raises; the parser returns rows or raises.
ProcessSource(fetch_ok, parsed) ==
    /\ upc = "loop"
    /\ index < Len(Selected)
    /\ LET config == Selected[index + 1]
           overridden == HasOverride(config, html_overrides)
           error == EnsureValid(parsed.value, config)
           output_path == CsvPath(date_string, config.filename)
       IN  /\ overridden => fetch_ok
           /\ fetched' = IF overridden THEN fetched ELSE Append(fetched, config.url)
           /\ IF ~fetch_ok
              THEN /\ upc' = "raised"
                   /\ raised' = FetchFailed
                   /\ UNCHANGED <<rows, files, written, index>>
              ELSE IF parsed.raised # NoError
              THEN /\ upc' = "raised"
                   /\ raised' = parsed.raised
                   /\ UNCHANGED <<rows, files, written, index>>
              ELSE IF error # NoError
              THEN /\ upc' = "raised"
                   /\ raised' = error
                   /\ rows' = parsed.value
                   /\ UNCHANGED <<files, written, index>>
              ELSE /\ rows' = parsed.value
                   /\ files' = WriteText(files, output_path, RowsToCsv(parsed.value))
                   /\ written' = Put(written, config.name, output_path)
                   /\ index' = index + 1
                   /\ UNCHANGED <<upc, raised>>
    /\ UNCHANGED <<pc, parser, consumed, last_currency, date_string, origin>>
    /\ UNCHANGED interpreterVars
    /\ UNCHANGED <<html_text, cells_iter, calls, source_names, html_overrides, readme>>

\* Mutant: README.md is updated after every pass of the loop.
FinishUpdate_InsideLoop ==
    /\ upc = "loop"
    /\ index >= 1
    /\ readme' = UpdateReadmeLinks(readme, written)
    /\ upc' = IF index = Len(Selected) THEN "returned" ELSE "loop"
    /\ UNCHANGED assemblerVars
    /\ UNCHANGED interpreterVars
    /\ UNCHANGED parseVars
    /\ UNCHANGED <<source_names, html_overrides, index, files, written, fetched>>

\* Lines 158-159: README.md is updated and `written` is returned.
FinishUpdate ==
    /\ upc = "loop"
    /\ index = Len(Selected)
    /\ readme' = UpdateReadmeLinks(readme, written)
    /\ upc' = "returned"
    /\ UNCHANGED assemblerVars
    /\ UNCHANGED interpreterVars
    /\ UNCHANGED parseVars
    /\ UNCHANGED <<source_names, html_overrides, index, files, written, fetched>>

\* The arguments of run_update and the README.md it finds.
NameChoices == SourceNames \cup {"xx-rates"}

SourceNameChoices ==
    {NoSourceNames, SourceNameList(<<"ca-interest", "us-interest", "us-margin">>)}
        \cup {SourceNameList(names) : names \in SeqsUpTo(NameChoices, MaxNames)}

OverrideChoices == {{}, {"ca-interest"}, {"ca-margin", "us-margin", "xx-rates"}, SourceNames}

\* The README.md of tests/test_update.py (lines 28-32).
OldLine ==
    <<"T", "h", "i", "s", " ", "r", "e", "p", "o", "s", "i", "t", "o", "r", "y", " ", "c", "o", "n", "t", "a", "i", "n", "s", " ", "t", "h", "e", " ", "d", "a", "i", "l", "y", " ", "I", "B", "K", "R", " ", "C", "a", "n", "a", "d", "a", " ", "i", "n", "t", "e", "r", "e", "s", "t", " ", "a", "n", "d", " ", "m", "a", "r", "g", "i", "n", " ", "r", "a", "t", "e", "s", ",", " ">>
        \o <<"w", "i", "t", "h", " ", "t", "h", "e", " ", "l", "a", "t", "e", "s", "t", " ", "s", "n", "a", "p", "s", "h", "o", "t", "s", " ", "a", "v", "a", "i", "l", "a", "b", "l", "e", " ", "i", "n", " ", "[", "U+0060", "d", "a", "t", "a", "/", "2", "0", "2", "3", "/", "1", "2", "/", "3", "1", "/", "i", "b", "k", "r", "-", "c", "a", "n", "a", "d", "a", "-", "i", "n", "t", "e", "r", "e", "s", "t", "-", "r", "a", "t", "e", "s", ".", "c", "s", "v", "U+0060", "]">>
        \o <<"(", "d", "a", "t", "a", "/", "2", "0", "2", "3", "/", "1", "2", "/", "3", "1", "/", "i", "b", "k", "r", "-", "c", "a", "n", "a", "d", "a", "-", "i", "n", "t", "e", "r", "e", "s", "t", "-", "r", "a", "t", "e", "s", ".", "c", "s", "v", ")", " ", "a", "n", "d", " ">>
        \o <<"[", "U+0060", "d", "a", "t", "a", "/", "2", "0", "2", "3", "/", "1", "2", "/", "3", "1", "/", "i", "b", "k", "r", "-", "c", "a", "n", "a", "d", "a", "-", "m", "a", "r", "g", "i", "n", "-", "r", "a", "t", "e", "s", ".", "c", "s", "v", "U+0060", "]">>
        \o <<"(", "d", "a", "t", "a", "/", "2", "0", "2", "3", "/", "1", "2", "/", "3", "1", "/", "i", "b", "k", "r", "-", "c", "a", "n", "a", "d", "a", "-", "m", "a", "r", "g", "i", "n", "-", "r", "a", "t", "e", "s", ".", "c", "s", "v", ")", ".">>

QuotedLine ==
    <<">", " ", "T", "h", "i", "s", " ", "r", "e", "p", "o", "s", "i", "t", "o", "r", "y", " ", "c", "o", "n", "t", "a", "i", "n", "s", " ", "t", "h", "e", " ", "d", "a", "i", "l", "y", " ", "I", "B", "K", "R", " ", "C", "a", "n", "a", "d", "a", " ", "a", "n", "d", " ", "U", "S", " ", "i", "n", "t", "e", "r", "e", "s", "t", " ", "a", "n", "d", " ", "m", "a", "r", "g", "i", "n", " ", "r", "a", "t", "e", "s", ",", " ", "s", "e", "e", " ", "b", "e", "l", "o", "w", ".">>

OtherLine ==
    <<"T", "h", "i", "s", " ", "r", "e", "p", "o", "s", "i", "t", "o", "r", "y", " ", "c", "o", "n", "t", "a", "i", "n", "s", " ", "t", "h", "e", " ", "d", "a", "i", "l", "y", " ", "I", "B", "K", "R", " ", "C", "a", "n", "a", "d", "a", " ", "a", "n", "d", " ", "E", "U", " ", "i", "n", "t", "e", "r", "e", "s", "t", " ", "a", "n", "d", " ", "m", "a", "r", "g", "i", "n", " ", "r", "a", "t", "e", "s", ",", " ", "w", "i", "t", "h", " ", "n", "o", " ", "s", "n", "a", "p", "s", "h", "o", "t", "s", ".">>

Readmes ==
    {NoReadme,
     Readme(<<"#", " ", "R", "a", "t", "e", "s", "\n">>),
     Readme(OldLine),
     Readme(<<"#", " ", "R", "a", "t", "e", "s", "\n", "\n">> \o OldLine \o <<"\n", "\n", "S", "e", "e", " ", "t", "h", "e", " ", "c", "h", "a", "r", "t", "s", ".", "\n">>),
     Readme(QuotedLine \o <<"\n">> \o OldLine \o <<"\n">>),
     Readme(OtherLine \o <<"\n">>)}

InitUpdate ==
    /\ AssemblerIdle
    /\ applied = "none"
    /\ text = <<>>
    /\ invert = FALSE
    /\ result = <<>>
    /\ ParserIdle
    /\ upc = "idle"
    /\ source_names = NoSourceNames
    /\ html_overrides = {}
    /\ index = 0
    /\ files = {}
    /\ written = <<>>
    /\ fetched = <<>>
    /\ readme \in Readmes

NextUpdate ==
    \/ \E names \in SourceNameChoices, overrides \in OverrideChoices, date \in DateStrings :
          RunUpdate(names, overrides, date)
    \/ \E fetch_ok \in BOOLEAN, parsed \in ParseOutcomes(date_string) :
          ProcessSource(fetch_ok, parsed)
    \/ FinishUpdate

SpecUpdate == InitUpdate /\ [][NextUpdate]_vars

\* _parse_tier_bounds applied to a text, and a table row with that text as its
\* tier cell given to the row assembler.
IsTierCellText(t) ==
    \/ \E ts \in SeqsUpTo(TierTokens, MaxTierLen - 1) : t = Flatten(ts)
    \/ t \in AllTexts
    \/ t \in TierExamples

\* What _clean_cell returns has no whitespace at either end and no
\* whitespace other than single spaces.
IsCleanCell(t) ==
    /\ t = Strip(t)
    /\ \A i \in 1..Len(t) : t[i] \in Space => (t[i] = " " /\ t[i + 1] \notin Space)

InitTierRow ==
    /\ pc = "loop"
    /\ parser \in {"interest", "margin"}
    /\ date_string \in DateStrings
    /\ consumed = <<>>
    /\ rows = <<>>
    /\ last_currency = Empty
    /\ origin = <<>>
    /\ applied = "none"
    /\ IsTierCellText(text)
    /\ invert = FALSE
    /\ result = <<>>
    /\ CallerIdle

\* The row <<"USD", text, "1%">> is the first row of cells_iter.
TierRow ==
    /\ applied = "_parse_tier_bounds"
    /\ consumed = <<>>
    /\ IsCleanCell(text)
    /\ NextRow(<<USD, text, <<"1", "%">>>>)

ApplyTierBoundsInRow ==
    /\ applied = "none"
    /\ applied' = "_parse_tier_bounds"
    /\ result' = ParseTierBounds(text)
    /\ UNCHANGED <<text, invert>>
    /\ UNCHANGED assemblerVars
    /\ UNCHANGED callerVars

NextTierRow ==
    \/ ApplyTierBoundsInRow
    \/ TierRow

SpecTierRow == InitTierRow /\ [][NextTierRow]_vars

-----------------------------------------------------------------------------
(* What the properties below say about a text, stated without the          *)
(* matching procedures above.                                              *)

HasDigit(t) == \E i \in 1..Len(t) : t[i] \in Digit

\* digits, or digits "." digits
IsDecimal(v) ==
    /\ Len(v) >= 1
    /\ \A k \in 1..Len(v) : v[k] \in Digit \cup {"."}
    /\ Cardinality({k \in 1..Len(v) : v[k] = "."}) <= 1
    /\ v[1] \in Digit
    /\ v[Len(v)] \in Digit

IsBM(t, i) == i + 1 <= Len(t) /\ t[i] \in {"B", "b"} /\ t[i + 1] \in {"M", "m"}

\* From index s on: n whitespace characters, then a sign.
SpacesThenSign(t, s, n) ==
    /\ s + n <= Len(t)
    /\ \A k \in s..(s + n - 1) : t[k] \in Space
    /\ t[s + n] \in {"+", "-"}

\* From index s on: n whitespace characters, then a decimal number up to
\* index e - 1, then "%" at index e.
SpacesThenPercentage(t, s, n, e) ==
    /\ s + n < e
    /\ e <= Len(t)
    /\ t[e] = "%"
    /\ \A k \in s..(s + n - 1) : t[k] \in Space
    /\ IsDecimal(SubSeq(t, s + n, e - 1))

\* "BM", whitespace, a sign, whitespace, a decimal number and "%" start at i.
BMOccursAt(t, i) ==
    /\ IsBM(t, i)
    /\ \E a \in 0..Len(t) :
          /\ SpacesThenSign(t, i + 2, a)
          /\ \E b \in 0..Len(t) : \E e \in 1..Len(t) :
                SpacesThenPercentage(t, i + 3 + a, b, e)

ContainsBM(t) == \E i \in 1..Len(t) : BMOccursAt(t, i)

\* Q(sign, v) holds of the leftmost "BM sign v%" of t, if t has one.
ForFirstBM(t, Q(_, _)) ==
    \A i \in 1..Len(t) :
        (BMOccursAt(t, i) /\ \A j \in 1..(i - 1) : ~BMOccursAt(t, j)) =>
            \A a \in 0..Len(t) : SpacesThenSign(t, i + 2, a) =>
                \A b \in 0..Len(t) : \A e \in 1..Len(t) :
                    SpacesThenPercentage(t, i + 3 + a, b, e) =>
                        Q(t[i + 2 + a], SubSeq(t, i + 3 + a + b, e - 1))

Signed(sign, v) == IF sign = "-" THEN <<"-">> \o v ELSE v

\* The first run of digits, commas and periods that starts with a digit,
\* its commas removed; empty when t has no digit.
FirstNumber(t) ==
    LET ds == {i \in 1..Len(t) : t[i] \in Digit}
    IN  IF ds = {} THEN Empty
        ELSE LET i == Min(ds)
                 stops == {k \in i..Len(t) : t[k] \notin Digit \cup {",", "."}}
                 last == IF stops = {} THEN Len(t) ELSE Min(stops) - 1
             IN  SelectSeq(SubSeq(t, i, last), LAMBDA c : c # ",")

IsBlank(t) == \A i \in 1..Len(t) : t[i] \in Space

\* The word "all" in any letter case, alone or between whitespace.
IsAllWord(t) ==
    \E i \in 1..(Len(t) - 2) :
        /\ t[i] \in {"a", "A"}
        /\ t[i + 1] \in {"l", "L"}
        /\ t[i + 2] \in {"l", "L"}
        /\ \A k \in 1..Len(t) : k \notin i..(i + 2) => t[k] \in Space

\* What the row assembler has seen: the currency cell of the most recent row
\* before row n with at least 3 cells and a non-blank currency cell.
CarriedBefore(n) ==
    LET prev == {m \in 1..(n - 1) : Len(consumed[m]) >= 3 /\ consumed[m][1] # Empty}
    IN  IF prev = {} THEN Empty ELSE consumed[Max(prev)][1]

CurrencyOf(n) ==
    IF consumed[n][1] = Empty THEN CarriedBefore(n) ELSE consumed[n][1]

Complete(n) ==
    /\ Len(consumed[n]) >= 3
    /\ CurrencyOf(n) # Empty
    /\ consumed[n][2] # Empty
    /\ HasDigit(consumed[n][3])

Emitted(n) == \E k \in 1..Len(rows) : origin[k] = n

-----------------------------------------------------------------------------
(* Properties of the row assembler, checked under Spec.                    *)

\* C1: a row with at least 3 cells and a blank currency cell is processed
\* with the currency cell of the most recent earlier row with at least 3
\* cells and a non-blank currency cell (it is emitted with that currency when
\* its tier text and rate are there), and a non-blank currency cell becomes
\* the carried-forward currency.
C1_CarryForward ==
    \A n \in 1..Len(consumed) : Len(consumed[n]) >= 3 =>
        /\ \A k \in 1..Len(rows) : origin[k] = n => rows[k].currency = CurrencyOf(n)
        /\ (consumed[n][1] = Empty /\ Complete(n)) => Emitted(n)
        /\ n = Len(consumed) => last_currency = CurrencyOf(n)

C1_Witness ==
    /\ consumed = <<FirstTierRow, SecondTierRow>>
    /\ Len(rows) = 2
    /\ rows[2].currency = USD
    /\ last_currency = USD

\* C2: a row with fewer than 3 cells emits nothing and leaves the
\* carried-forward currency as it was, whatever its first cell.
C2_ShortRowSkipped ==
    [][(/\ Len(consumed') = Len(consumed) + 1
        /\ Len(consumed'[Len(consumed')]) < 3)
       => (rows' = rows /\ last_currency' = last_currency)]_vars

C2_Witness ==
    /\ consumed = <<FirstTierRow, NoteRow>>
    /\ NoteRow[1] # Empty
    /\ last_currency = USD
    /\ Len(rows) = 1

\* C3: every emitted row has a currency and a rate and comes from a row with
\* a tier text; a row of at least 3 cells that lacks the currency (after
\* carry-forward), the tier text or a rate is not emitted; and the table of a
\* header row, two USD tier rows and one short separator row gives 2 rows.
IsScenario ==
    /\ Len(consumed) = 4
    /\ SelectSeq(consumed, LAMBDA r : Len(r) >= 3) = <<HeaderRow, FirstTierRow, SecondTierRow>>
    /\ SelectSeq(consumed, LAMBDA r : Len(r) < 3) = <<SeparatorRow>>

C3_EmittedRowsComplete ==
    /\ \A k \in 1..Len(rows) :
          /\ rows[k].currency # Empty
          /\ rows[k].rate # Empty
          /\ consumed[origin[k]][2] # Empty
    /\ \A n \in 1..Len(consumed) :
          (Len(consumed[n]) >= 3 /\ ~Complete(n)) => ~Emitted(n)
    /\ (pc = "done" /\ IsScenario) => Len(rows) = 2

C3_Witness ==
    /\ pc = "done"
    /\ consumed = <<HeaderRow, FirstTierRow, SeparatorRow, SecondTierRow>>
    /\ Len(rows) = 2
    /\ ~Emitted(1)

\* C4: the emitted rows are the retained input rows in input order, one
\* emitted row for each, equal rows kept and no regrouping by currency.
C4_SourceOrder ==
    /\ Len(origin) = Len(rows)
    /\ \A k \in 1..(Len(rows) - 1) : origin[k] < origin[k + 1]
    /\ \A n \in 1..Len(consumed) :
          Cardinality({k \in 1..Len(rows) : origin[k] = n}) = IF Complete(n) THEN 1 ELSE 0
    /\ \A k \in 1..Len(rows) :
          LET cells == consumed[origin[k]]
          IN  /\ rows[k].date = date_string
              /\ rows[k].currency = CurrencyOf(origin[k])
              /\ rows[k].rate = ParseRate(cells[3])
              /\ <<rows[k].tier_low, rows[k].tier_high>> = ParseTierBounds(cells[2])

C4_Witness ==
    /\ consumed = <<FirstTierRow, EuroRow, FirstTierRow>>
    /\ Len(rows) = 3
    /\ rows[1] = rows[3]
    /\ rows[1].currency = USD
    /\ rows[2].currency = EUR

\* C6: parse_interest_rates emits benchmark_diff "-v" for a rate cell with
\* "BM - v%" and "v" for one with "BM + v%".
C6_InterestBenchmarkSigned ==
    parser = "interest" =>
        \A k \in 1..Len(rows) :
            ForFirstBM(consumed[origin[k]][3],
                       LAMBDA sign, v : rows[k].benchmark_diff = Signed(sign, v))

C6_Witness ==
    /\ parser = "interest"
    /\ consumed = <<FirstTierRow, SecondTierRow, EuroRow>>
    /\ rows[2].rate = <<"3", ".", "5", "8", "0">>
    /\ rows[2].benchmark_diff = <<"-", "0", ".", "5">>
    /\ rows[3].benchmark_diff = <<"1">>

-----------------------------------------------------------------------------
(* Properties of _parse_benchmark_diff, checked under SpecBM.              *)

BMApplied == applied = "_parse_benchmark_diff"

\* C5 as stated: with invert=True the result is the bare magnitude "v" for
\* "BM - v%" as for "BM + v%".
C5_InvertGivesMagnitude ==
    (BMApplied /\ invert) => ForFirstBM(text, LAMBDA sign, v : result = v)

\* C5 as amended: with invert=True the result is "-v" for "BM - v%" and "v"
\* for "BM + v%".
C5_InvertKeepsSign ==
    (BMApplied /\ invert) => ForFirstBM(text, LAMBDA sign, v : result = Signed(sign, v))

C5_Witness ==
    /\ BMApplied
    /\ invert
    /\ text = <<"B", "M", " ", "-", " ", "0", ".", "5", "%">>
    /\ result = <<"-", "0", ".", "5">>

\* C7: with invert=False the result is "-v" for "BM - v%" and "v" for
\* "BM + v%".
C7_NoInvertKeepsSign ==
    (BMApplied /\ ~invert) => ForFirstBM(text, LAMBDA sign, v : result = Signed(sign, v))

\* C8: a text without "BM", whitespace, a sign, whitespace, a decimal number
\* and "%" gives "0", for both values of invert.
C8_NoBenchmarkGivesZero ==
    (BMApplied /\ ~ContainsBM(text)) => result = <<"0">>

C8_Witness ==
    /\ BMApplied
    /\ invert
    /\ text = <<"b", "M", " ", "-", "5", ".", "5">>
    /\ ~ContainsBM(text)
    /\ result = <<"0">>

-----------------------------------------------------------------------------
(* Properties of _parse_tier_bounds, checked under SpecTier.               *)

TierApplied == applied = "_parse_tier_bounds"

\* C9: an empty or whitespace-only tier text, and the word "all" in any
\* letter case, give ("", "").
C9_UnboundedTier ==
    (TierApplied /\ (IsBlank(text) \/ IsAllWord(text))) => result = <<Empty, Empty>>

C9_Witness ==
    /\ TierApplied
    /\ text = <<" ", "A", "L", "l">>
    /\ result = <<Empty, Empty>>

\* C10: a tier text with ">" gives (the first numeric token without its
\* commas, ""), also when it has a range marker or more numeric tokens.
C10_GreaterThanWins ==
    (TierApplied /\ \E i \in 1..Len(text) : text[i] = ">") =>
        result = <<FirstNumber(text), Empty>>

C10_Witness ==
    /\ TierApplied
    /\ text = <<">", "1", ",", "-", "2">>
    /\ \E s \in RangeSymbols : Contains(text, s)
    /\ result = <<<<"1">>, Empty>>

\* The numeric tokens of a text: index k lies in a token when a digit at or
\* before k starts a run of digits, commas and periods that reaches k.
NumberChars == Digit \cup {",", "."}

InToken(t, k) ==
    \E i \in 1..k : t[i] \in Digit /\ \A j \in i..k : t[j] \in NumberChars

TokenStarts(t) == {i \in 1..Len(t) : t[i] \in Digit /\ ~InToken(t, i - 1)}

\* The token that starts at i, its commas removed.
TokenAt(t, i) ==
    LET stops == {k \in i..Len(t) : t[k] \notin NumberChars}
        last == IF stops = {} THEN Len(t) ELSE Min(stops) - 1
    IN  SelectSeq(SubSeq(t, i, last), LAMBDA c : c # ",")

Token0(t) == TokenAt(t, Min(TokenStarts(t)))

Token1(t) == TokenAt(t, Min(TokenStarts(t) \ {Min(TokenStarts(t))}))

HasChar(t, c) == \E i \in 1..Len(t) : t[i] = c

HasLessEqual(t) == \E i \in 1..(Len(t) - 1) : t[i] = "<" /\ t[i + 1] = "="

\* C11: without ">" and with a hyphen or "<=", two or more numeric tokens
\* give (token0, token1) and exactly one gives ("0", token0).
C11_RangeBounds ==
    (TierApplied /\ ~HasChar(text, ">") /\ (HasChar(text, "-") \/ HasLessEqual(text))) =>
        /\ Cardinality(TokenStarts(text)) >= 2 => result = <<Token0(text), Token1(text)>>
        /\ Cardinality(TokenStarts(text)) = 1 => result = <<<<"0">>, Token0(text)>>

C11_Witness ==
    /\ TierApplied
    /\ text = <<"1", "-", "2", " ", "1">>
    /\ Cardinality(TokenStarts(text)) = 3
    /\ result = <<<<"1">>, <<"2">>>>

C11_WitnessOne ==
    /\ TierApplied
    /\ text = <<"<", "=", " ", "1", ",", "2">>
    /\ result = <<<<"0">>, <<"1", "2">>>>

\* C12: the less-than-or-equal symbol U+2264 is a range marker: with it, no
\* ">", no hyphen, no "<=" and exactly one numeric token, the result is
\* ("0", token0).
C12_LessOrEqualSymbol ==
    (/\ TierApplied
     /\ HasChar(text, "U+2264")
     /\ ~HasChar(text, ">")
     /\ ~HasChar(text, "-")
     /\ ~HasLessEqual(text)
     /\ Cardinality(TokenStarts(text)) = 1)
    => result = <<<<"0">>, Token0(text)>>

-----------------------------------------------------------------------------
(* Properties of _parse_tier_bounds inside a table row, checked under      *)
(* SpecTierRow.                                                            *)

\* C13: _parse_tier_bounds returns a pair for every text, and ("", "") for a
\* text without a digit; a row with such a tier text that is not empty, a
\* currency and a rate is emitted with both bounds empty.
C13_NoDigitUnbounded ==
    /\ TierApplied =>
          /\ Len(result) = 2
          /\ ~HasDigit(text) => result = <<Empty, Empty>>
    /\ (Len(consumed) = 1 /\ text # Empty /\ ~HasDigit(text)) =>
          /\ Len(rows) = 1
          /\ rows[1].tier_low = Empty
          /\ rows[1].tier_high = Empty
          /\ rows[1].currency = USD

C13_Witness ==
    /\ TierApplied
    /\ text = <<">", " ", "-">>
    /\ result = <<Empty, Empty>>
    /\ Len(consumed) = 1
    /\ Len(rows) = 1
    /\ rows[1].tier_low = Empty

-----------------------------------------------------------------------------
(* Properties of _parse_rate, checked under SpecRate.                      *)

RateApplied == applied = "_parse_rate"

\* The end of the longest run of digits of t that starts at index d.
DigitRunEnd(t, d) == Max({e \in d..Len(t) : \A j \in d..e : t[j] \in Digit})

\* The leftmost text of the form optional "-", digits, optional "." and
\* digits: it holds the first digit of t, with the "-" just before it if
\* there is one.
LeftmostRate(t) ==
    LET d == Min({i \in 1..Len(t) : t[i] \in Digit})
        from == IF d > 1 /\ t[d - 1] = "-" THEN d - 1 ELSE d
        e == DigitRunEnd(t, d)
        fraction == e + 2 <= Len(t) /\ t[e + 1] = "." /\ t[e + 2] \in Digit
        to == IF fraction THEN DigitRunEnd(t, e + 2) ELSE e
    IN  SubSeq(t, from, to)

\* C14: _parse_rate returns the leftmost text of the form optional "-",
\* digits, optional "." and digits, without the "%" that may follow it, and ""
\* for a text without a digit; the result never holds "%".
C14_LeftmostRate ==
    RateApplied =>
        /\ HasDigit(text) => result = LeftmostRate(text)
        /\ ~HasDigit(text) => result = Empty
        /\ ~HasChar(result, "%")

C14_Witness ==
    /\ RateApplied
    /\ text = <<"5", ".", "0", "8", "0", "%", " ", "(", "B", "M", " ", "+", " ", "1", "%", ")">>
    /\ result = <<"5", ".", "0", "8", "0">>

C14_WitnessNegative ==
    /\ RateApplied
    /\ text = <<"%", "-", "1", ".", "5", "%">>
    /\ result = <<"-", "1", ".", "5">>

-----------------------------------------------------------------------------
(* Properties of _extract_table_after_heading, checked under SpecExtract.  *)

ExtractApplied == applied = "_extract_table_after_heading"

\* The text with its upper-case letters A-Z in lower case.
AsciiLower(t) == [i \in 1..Len(t) |-> IF t[i] \in DOMAIN FoldMap THEN FoldMap[t[i]] ELSE t[i]]

\* The index after the first occurrence of the heading in the lower-cased
\* document; 0 when the heading does not occur.
AfterHeading(low, heading) ==
    LET at == {i \in 1..(Len(low) - Len(heading) + 1) :
                  low[i] = heading[1] /\ SubSeq(low, i, i + Len(heading) - 1) = heading}
    IN  IF at = {} THEN 0 ELSE Min(at) + Len(heading)

\* A table opens at index i of the lower-cased document.
OpensTable(low, i) ==
    /\ low[i] = "<"
    /\ i + 6 <= Len(low)
    /\ SubSeq(low, i, i + 5) = TableOpen
    /\ low[i + 6] \notin WordChar

\* A closing table tag starts at index j of the lower-cased document.
ClosesTable(low, j) ==
    /\ low[j] = "<"
    /\ j + 7 <= Len(low)
    /\ SubSeq(low, j, j + 7) = TableClose

\* C15: when the heading occurs and a table opens after its first occurrence
\* (letters compared without regard to case) with a closing tag after the
\* opening, _extract_table_after_heading returns the document from the first
\* such opening to the end of the first closing tag after it; what it returns
\* never starts before the end of that occurrence of the heading.
C15_FirstTableAfterHeading ==
    LET low == AsciiLower(html_text)
        pos == AfterHeading(low, AsciiLower(Heading(parser)))
        opens == {i \in pos..Len(low) : OpensTable(low, i)}
        closes == {j \in pos..Len(low) : ClosesTable(low, j)}
        first == Min(opens)
        after == {j \in closes : j > first}
    IN  (ExtractApplied /\ pos > 0) =>
            IF opens # {} /\ after # {}
            THEN /\ raised = NoError
                 /\ result = SubSeq(html_text, first, Min(after) + 7)
            ELSE raised # NoError

C15_Witness ==
    /\ ExtractApplied
    /\ parser = "margin"
    /\ html_text = <<"<", "t", "a", "b", "l", "e", ">", "a", "I", "N", "T", "E", "R", "E", "S", "T", " ", "c", "h", "a", "r", "g", "e", "d", " ", "o", "n", " ", "m", "a", "r", "g", "i", "n", " ", "l", "o", "a", "n", "s", "<", "T", "A", "B", "L", "E", " ", "i", "d", "=", "b", ">", "b", "<", "t", "a", "b", "l", "e", ">", "a", "<", "/", "T", "a", "b", "l", "e", ">">>
    /\ result = <<"<", "T", "A", "B", "L", "E", " ", "i", "d", "=", "b", ">", "b", "<", "t", "a", "b", "l", "e", ">", "a", "<", "/", "T", "a", "b", "l", "e", ">">>
    /\ raised = NoError

-----------------------------------------------------------------------------
(* Properties of parse_interest_rates and parse_margin_rates, checked      *)
(* under SpecParse.                                                        *)

\* The first table region after index pos of the lower-cased page, as the
\* pair of its first and last index; <<0, 0>> when there is none.
TableRegion(low, pos) ==
    LET opens == {i \in pos..Len(low) : OpensTable(low, i)}
        after == {j \in pos..Len(low) : ClosesTable(low, j) /\ j > Min(opens)}
    IN  IF opens = {} \/ after = {} THEN <<0, 0>> ELSE <<Min(opens), Min(after) + 7>>

\* The region holds no opening tbody tag.
NoBodyIn(low, region) ==
    \A i \in region[1]..(region[2] - 5) : low[i] = "<" => SubSeq(low, i, i + 5) # <<"<", "t", "b", "o", "d", "y">>

\* The heading never appears in the page (in any case of its letters), or no
\* table follows its first occurrence, or that table has no tbody section.
StructuralFailure(html, heading) ==
    LET low == AsciiLower(html)
        pos == AfterHeading(low, AsciiLower(heading))
    IN  \/ pos = 0
        \/ TableRegion(low, pos) = <<0, 0>>
        \/ NoBodyIn(low, TableRegion(low, pos))

\* C16: a call of parse_interest_rates or parse_margin_rates on a page
\* without the heading, without a table after the heading, or whose table
\* has no tbody section ends with an exception and returns no rows.
C16_StructuralFailureRaises ==
    \A k \in DOMAIN calls :
        StructuralFailure(calls[k].html_text, Heading(calls[k].parser)) =>
            /\ calls[k].raised # NoError
            /\ calls[k].value = <<>>

C16_Witness ==
    /\ Len(calls) = 1
    /\ calls[1].html_text = InterestHeadingHtml \o TableStartHtml \o TheadHtml \o TableClose
    /\ calls[1].parser = "interest"
    /\ StructuralFailure(calls[1].html_text, GlobalInterestRates)
    /\ calls[1].raised = MissingBody
    /\ pc = "idle"

C16_WitnessRows ==
    /\ Len(calls) = 1
    /\ calls[1].raised = NoError
    /\ Len(calls[1].value) = 2

\* C17: the three structural failures leave the parse functions as
\* exceptions of different kinds, which also differ from the kind of the
\* validation errors of run_update: the kind of the exception raised is the
\* kind of no other failure.
C17_DistinctKinds ==
    \A k \in DOMAIN calls :
        calls[k].raised # NoError =>
            \A other \in {HeadingNotFound, TableNotFound, MissingBody,
                          TooFewRows, NoRequiredCurrency} \ {calls[k].raised} :
                other.kind # calls[k].raised.kind

-----------------------------------------------------------------------------
(* Properties of rows_to_csv, checked under SpecCsv.                       *)

CsvApplied == applied = "rows_to_csv"

\* The indices of the newlines of t, and its k-th line: the text between the
\* newline k - 1 (or the start) and the newline k.
Newlines(t) == {i \in 1..Len(t) : t[i] = "\n"}

LineOf(t, k) ==
    LET ends == {i \in Newlines(t) : Cardinality({j \in Newlines(t) : j <= i}) = k}
        before == {i \in Newlines(t) : Cardinality({j \in Newlines(t) : j <= i}) = k - 1}
        from == IF k = 1 THEN 1 ELSE Min(before) + 1
    IN  SubSeq(t, from, Min(ends) - 1)

\* C18: rows_to_csv gives the header line, then one line per row in input
\* order holding its six fields joined by commas as they are, each line
\* ended by a newline: n rows give n + 1 newlines, the last one at the end.
C18_HeaderAndLines ==
    CsvApplied =>
        /\ Cardinality(Newlines(result)) = Len(rows) + 1
        /\ result[Len(result)] = "\n"
        /\ LineOf(result, 1) = <<"D", "a", "t", "e", ",", "C", "u", "r", "r", "e", "n", "c", "y", ",", "T", "i", "e", "r", "L", "o", "w", ",", "T", "i", "e", "r", "H", "i", "g", "h", ",", "R", "a", "t", "e", ",", "B", "e", "n", "c", "h", "m", "a", "r", "k", "D", "i", "f", "f">>
        /\ \A k \in 1..Len(rows) :
              LineOf(result, k + 1) =
                  rows[k].date \o <<",">> \o rows[k].currency \o <<",">> \o rows[k].tier_low
                  \o <<",">> \o rows[k].tier_high \o <<",">> \o rows[k].rate \o <<",">>
                  \o rows[k].benchmark_diff

C18_Witness ==
    /\ CsvApplied
    /\ Len(rows) = 2
    /\ rows[2].currency = <<"U", ",", "S", " ", "\"", "D", "\"">>
    /\ LineOf(result, 3) = <<"2", "0", "2", "3", "-", "1", "2", "-", "3", "1", ",", "U", ",", "S", " ", "\"", "D", "\"", ",", ",", ",", "-", "0", ".", "2", "1", "8", ",", "1">>
    /\ LineOf(result, 2) = <<"2", "0", "2", "4", "-", "0", "1", "-", "0", "1", ",", "U", "S", "D", ",", "1", "0", "0", "0", "0", ",", ",", "3", ".", "5", "8", "0", ",", "-", "0", ".", "5">>

C18_WitnessEmpty ==
    /\ CsvApplied
    /\ rows = <<>>
    /\ result = <<"D", "a", "t", "e", ",", "C", "u", "r", "r", "e", "n", "c", "y", ",", "T", "i", "e", "r", "L", "o", "w", ",", "T", "i", "e", "r", "H", "i", "g", "h", ",", "R", "a", "t", "e", ",", "B", "e", "n", "c", "h", "m", "a", "r", "k", "D", "i", "f", "f", "\n">>

-----------------------------------------------------------------------------
(* Properties of repeated parse calls, checked under SpecReparse.          *)

\* C19: two calls of the same parse function on the same page with the same
\* date end alike, whatever was parsed between them: the same exception or
\* the same rows, and the same rows_to_csv text.
C19_SameInputSameOutput ==
    \A i, j \in DOMAIN calls :
        (/\ calls[i].parser = calls[j].parser
         /\ calls[i].html_text = calls[j].html_text
         /\ calls[i].date_string = calls[j].date_string)
        => /\ calls[i].raised = calls[j].raised
           /\ calls[i].value = calls[j].value
           /\ RowsToCsv(calls[i].value) = RowsToCsv(calls[j].value)

\* The page whose first row has no currency is parsed after a page that ends
\* on USD and again gives only its EUR row.
C19_Witness ==
    /\ Len(calls) = 3
    /\ calls[1].html_text = CarryPage
    /\ calls[2].html_text = InterestPage
    /\ calls[3] = calls[1]
    /\ Len(calls[2].value) = 2
    /\ calls[2].value[2].currency = USD
    /\ Len(calls[3].value) = 1
    /\ calls[3].value[1].currency = EUR

-----------------------------------------------------------------------------
(* Properties of run_update, checked under SpecUpdate.                     *)

HasCurrency(rs, currency) == \E k \in 1..Len(rs) : rs[k].currency = currency

CsvFiles(fs) == {f \in fs : f.kind = "file"}

\* C20: in a pass of the loop of run_update, rows with fewer than
\* minimum_rows (20) entries, or without a row in the required currency
\* ("USD"), end the run with an exception and no CSV file is written for the
\* source; a pass writes a CSV file only for rows that pass both checks.
C20_ValidatedBeforeWrite ==
    [][(upc = "loop" /\ index < Len(Selected)) =>
          LET config == Selected[index + 1]
              valid == /\ Len(rows') >= 20
                       /\ HasCurrency(rows', <<"U", "S", "D">>)
          IN  /\ config.minimum_rows = 20
              /\ config.required_currency = <<"U", "S", "D">>
              /\ ~valid => /\ upc' = "raised"
                           /\ raised' # NoError
                           /\ CsvFiles(files') = CsvFiles(files)
                           /\ written' = written
              /\ CsvFiles(files') # CsvFiles(files) => valid]_vars

\* The second source returned 19 rows: the run ended with the first CSV only.
C20_Witness ==
    /\ upc = "raised"
    /\ raised = TooFewRows
    /\ index = 1
    /\ Len(rows) = 19
    /\ HasCurrency(rows, <<"U", "S", "D">>)
    /\ Cardinality(CsvFiles(files)) = 1
    /\ Len(written) = 1

C20_WitnessCurrency ==
    /\ upc = "raised"
    /\ raised = NoRequiredCurrency
    /\ Len(rows) = 20
    /\ CsvFiles(files) = {}

C20_WitnessWritten ==
    /\ upc = "returned"
    /\ Cardinality(CsvFiles(files)) = 4
    /\ Len(rows) = 20

-----------------------------------------------------------------------------
(* _update_readme_links called on its own, more than once                  *)

MaxReadmeLen == 4

MaxReadmeCalls == 2

ReadmeTokens ==
    {<<"#", " ", "R", "a", "t", "e", "s">>, <<"\n">>, <<">", " ">>, PatternHead,
     <<"T", "h", "i", "s", " ", "r", "e", "p", "o", "s", "i", "t", "o", "r", "y", " ", "c", "o", "n", "t", "a", "i", "n", "s", " ", "t", "h", "e", " ", "d", "a", "i", "l", "y", " ", "I", "B", "K", "R", " ", "C", "a", "n", "a", "d", "a", " ", "i", "n", "t", "e", "r", "e", "s", "t", " ", "a", "n", "d", " ", "m", "a", "r", "g", "i", "n", " ", "r", "a", "t", "e", "s", ",", " ", "a", "s", " ", "o", "f", " ", "2", "0", "2", "3", ".">>,
     <<"T", "h", "i", "s", " ", "r", "e", "p", "o", "s", "i", "t", "o", "r", "y", " ", "c", "o", "n", "t", "a", "i", "n", "s", " ", "t", "h", "e", " ", "d", "a", "i", "l", "y", " ", "I", "B", "K", "R", " ", "C", "a", "n", "a", "d", "a", " ", "a", "n", "d", " ", "U", "S", " ", "i", "n", "t", "e", "r", "e", "s", "t", " ", "a", "n", "d", " ", "m", "a", "r", "g", "i", "n", " ", "r", "a", "t", "e", "s", ",">>}

ReadmeDate == <<"2", "0", "2", "4", "-", "0", "1", "-", "0", "1">>

\* A CSV file that is not below the directory of README.md.
OutsidePath(filename) == <<<<"t", "m", "p">>, <<"2", "0", "2", "4">>, <<"0", "1">>, <<"0", "1">>, filename>>

WrittenEntry(name) == [name |-> name, path |-> CsvPath(ReadmeDate, SOURCES[name].filename)]

\* The mapping `written` of a call.
WrittenChoices ==
    {<<>>,
     <<WrittenEntry("ca-interest")>>,
     <<WrittenEntry("ca-interest"), WrittenEntry("ca-margin")>>,
     <<WrittenEntry("us-margin"), WrittenEntry("ca-margin"), WrittenEntry("us-interest")>>,
     <<WrittenEntry("ca-interest"), WrittenEntry("ca-margin"),
       WrittenEntry("us-interest"), WrittenEntry("us-margin")>>,
     <<WrittenEntry("ca-interest"),
       [name |-> "ca-margin", path |-> OutsidePath(SOURCES["ca-margin"].filename)]>>,
     <<[name |-> "ca-interest", path |-> OutsidePath(SOURCES["ca-interest"].filename)],
       WrittenEntry("us-interest"), WrittenEntry("us-margin")>>,
     <<[name |-> "xx-rates", path |-> CsvPath(ReadmeDate, <<"x", "x", "-", "r", "a", "t", "e", "s", ".", "c", "s", "v">>)],
       WrittenEntry("us-interest"), WrittenEntry("us-margin")>>}

InitReadme ==
    /\ AssemblerIdle
    /\ applied = "none"
    /\ text = <<>>
    /\ invert = FALSE
    /\ result = <<>>
    /\ ParserIdle
    /\ upc = "idle"
    /\ source_names = NoSourceNames
    /\ html_overrides = {}
    /\ index = 0
    /\ files = {}
    /\ fetched = <<>>
    /\ written \in WrittenChoices
    /\ \/ readme = NoReadme
       \/ \E ts \in SeqsUpTo(ReadmeTokens, MaxReadmeLen) : readme = Readme(Flatten(ts))

\* One call of _update_readme_links(output_root, written); `index` counts
\* the calls.
CallUpdateReadmeLinks ==
    /\ index < MaxReadmeCalls
    /\ index' = index + 1
    /\ readme' = UpdateReadmeLinks(readme, written)
    /\ UNCHANGED assemblerVars
    /\ UNCHANGED interpreterVars
    /\ UNCHANGED parseVars
    /\ UNCHANGED <<upc, source_names, html_overrides, files, written, fetched>>

NextReadme == CallUpdateReadmeLinks

SpecReadme == InitReadme /\ [][NextReadme]_vars

-----------------------------------------------------------------------------
(* run_update: what a run leaves behind                                    *)

SelectedNames == {Selected[k].name : k \in 1..Len(Selected)}

\* <output_root>/<YYYY>/<MM>/<DD>/<source filename> for the date of the run.
DatedPath(name) ==
    <<<<"r", "e", "p", "o">>, <<"d", "a", "t", "a">>,
      <<date_string[1], date_string[2], date_string[3], date_string[4]>>,
      <<date_string[6], date_string[7]>>,
      <<date_string[9], date_string[10]>>,
      SOURCES[name].filename>>

\* C21: when run_update has returned, the CSV files are exactly one per
\* selected source, at <output_root>/<YYYY>/<MM>/<DD>/<source filename> for
\* the date of the run, and the mapping returned has exactly the selected
\* names as keys, each with the path written for it; without source_names
\* the four configured sources are selected.
C21_OneFilePerSource ==
    upc = "returned" =>
        /\ {f.path : f \in CsvFiles(files)} = {DatedPath(name) : name \in SelectedNames}
        /\ Cardinality(CsvFiles(files)) = Cardinality(SelectedNames)
        /\ WrittenNames(written) = SelectedNames
        /\ Len(written) = Cardinality(SelectedNames)
        /\ \A k \in 1..Len(written) : written[k].path = DatedPath(written[k].name)
        /\ ~source_names.given =>
              SelectedNames = {"ca-interest", "ca-margin", "us-interest", "us-margin"}

C21_Witness ==
    /\ upc = "returned"
    /\ ~source_names.given
    /\ Len(written) = 4
    /\ written[3].path = <<<<"r", "e", "p", "o">>, <<"d", "a", "t", "a">>, <<"2", "0", "2", "3">>, <<"1", "2">>, <<"3", "1">>, <<"i", "b", "k", "r", "-", "u", "s", "-", "i", "n", "t", "e", "r", "e", "s", "t", "-", "r", "a", "t", "e", "s", ".", "c", "s", "v">>>>

C21_WitnessChosen ==
    /\ upc = "returned"
    /\ source_names = SourceNameList(<<"us-margin", "ca-interest">>)
    /\ Cardinality(CsvFiles(files)) = 2

-----------------------------------------------------------------------------
(* run_update and README.md                                                *)

\* The snapshot sentence, for Canada alone and for Canada and US.
SentenceCanada ==
    <<"T", "h", "i", "s", " ", "r", "e", "p", "o", "s", "i", "t", "o", "r", "y", " ", "c", "o", "n", "t", "a", "i", "n", "s", " ", "t", "h", "e", " ", "d", "a", "i", "l", "y", " ", "I", "B", "K", "R", " ", "C", "a", "n", "a", "d", "a", " ", "i", "n", "t", "e", "r", "e", "s", "t", " ", "a", "n", "d", " ", "m", "a", "r", "g", "i", "n", " ", "r", "a", "t", "e", "s", ",">>

SentenceBoth ==
    <<"T", "h", "i", "s", " ", "r", "e", "p", "o", "s", "i", "t", "o", "r", "y", " ", "c", "o", "n", "t", "a", "i", "n", "s", " ", "t", "h", "e", " ", "d", "a", "i", "l", "y", " ", "I", "B", "K", "R", " ", "C", "a", "n", "a", "d", "a", " ", "a", "n", "d", " ", "U", "S", " ", "i", "n", "t", "e", "r", "e", "s", "t", " ", "a", "n", "d", " ", "m", "a", "r", "g", "i", "n", " ", "r", "a", "t", "e", "s", ",">>

StartsAt(t, i, sub) ==
    i + Len(sub) - 1 <= Len(t) /\ \A k \in 1..Len(sub) : t[i + k - 1] = sub[k]

\* The indices at which the snapshot sentence starts.
SentenceStarts(t) ==
    {i \in 1..Len(t) : StartsAt(t, i, SentenceCanada) \/ StartsAt(t, i, SentenceBoth)}

IsLineStart(t, i) == i = 1 \/ t[i - 1] = "\n"

\* The index of the last character of the line that holds index i.
EndOfLine(t, i) ==
    IF \E k \in i..Len(t) : t[k] = "\n"
    THEN (CHOOSE k \in i..Len(t) : t[k] = "\n" /\ \A j \in i..(k - 1) : t[j] # "\n") - 1
    ELSE Len(t)

\* The link to the file written for a source, relative to the directory of
\* README.md.
LinkTo(name) ==
    LET rel == <<"d", "a", "t", "a", "/">> \o SubSeq(date_string, 1, 4) \o <<"/">> \o SubSeq(date_string, 6, 7)
                   \o <<"/">> \o SubSeq(date_string, 9, 10) \o <<"/">> \o SOURCES[name].filename
    IN  <<"[", "U+0060">> \o rel \o <<"U+0060", "]", "(">> \o rel \o <<")">>

RegionCanada(wr) == {"ca-interest", "ca-margin"} \subseteq WrittenNames(wr)

RegionUS(wr) == {"us-interest", "us-margin"} \subseteq WrittenNames(wr)

\* The line that lists the regions with both files written, Canada first.
ListedLine(wr) ==
    LET canada == <<"C", "a", "n", "a", "d", "a", ":", " ">> \o LinkTo("ca-interest") \o <<" ", "a", "n", "d", " ">> \o LinkTo("ca-margin")
        us == <<"U", "S", ":", " ">> \o LinkTo("us-interest") \o <<" ", "a", "n", "d", " ">> \o LinkTo("us-margin")
    IN  SentenceBoth \o <<" ", "w", "i", "t", "h", " ", "t", "h", "e", " ", "l", "a", "t", "e", "s", "t", " ", "s", "n", "a", "p", "s", "h", "o", "t", "s", " ", "a", "v", "a", "i", "l", "a", "b", "l", "e", " ", "i", "n", " ">>
            \o (IF RegionCanada(wr) THEN canada ELSE <<>>)
            \o (IF RegionCanada(wr) /\ RegionUS(wr) THEN <<";", " ">> ELSE <<>>)
            \o (IF RegionUS(wr) THEN us ELSE <<>>)
            \o <<".">>

\* The text with the rest of the line from index i on replaced.
WithLineFrom(t, i, line) ==
    SubSeq(t, 1, i - 1) \o line \o SubSeq(t, EndOfLine(t, i) + 1, Len(t))

ReturnsNow == upc = "loop" /\ upc' = "returned"

\* C22 as stated: when run_update returns and README.md holds a line that
\* starts with the snapshot sentence, the first such line is replaced by the
\* line that lists exactly the regions with both files written in this run.
C22_FirstLineReplaced ==
    [][(ReturnsNow /\ readme.exists) =>
          LET lines == {i \in SentenceStarts(readme.text) : IsLineStart(readme.text, i)}
          IN  lines # {} =>
                  /\ readme'.exists
                  /\ \E first \in lines :
                        /\ \A i \in lines : first <= i
                        /\ readme'.text = WithLineFrom(readme.text, first, ListedLine(written))]_vars

\* C22, amended: when run_update returns, README.md holds the snapshot
\* sentence and a region has both of its files written in this run, the
\* first occurrence of the sentence, up to the end of its line, is replaced by
\* the sentence that lists exactly the regions with both files written,
\* Canada before US, with links relative to the directory of README.md; the
\* text before it and after its line stays. When no region has both files,
\* README.md stays as it is.
C22_FirstSentenceReplaced ==
    [][(ReturnsNow /\ readme.exists /\ SentenceStarts(readme.text) # {}) =>
          IF RegionCanada(written) \/ RegionUS(written)
          THEN /\ readme'.exists
               /\ \E first \in SentenceStarts(readme.text) :
                     /\ \A i \in SentenceStarts(readme.text) : first <= i
                     /\ readme'.text = WithLineFrom(readme.text, first, ListedLine(written))
          ELSE readme' = readme]_vars

\* Both regions are listed in a quoted line; the line below it, which starts
\* with the sentence, is the old one.
C22_Witness ==
    /\ upc = "returned"
    /\ date_string = <<"2", "0", "2", "4", "-", "0", "1", "-", "0", "1">>
    /\ readme.text =
          <<">", " ", "T", "h", "i", "s", " ", "r", "e", "p", "o", "s", "i", "t", "o", "r", "y", " ", "c", "o", "n", "t", "a", "i", "n", "s", " ", "t", "h", "e", " ", "d", "a", "i", "l", "y", " ", "I", "B", "K", "R", " ", "C", "a", "n", "a", "d", "a", " ", "a", "n", "d", " ", "U", "S", " ", "i", "n", "t", "e", "r", "e", "s", "t", " ", "a", "n", "d", " ", "m", "a", "r", "g", "i", "n", " ", "r", "a", "t", "e", "s", ",", " ">>
              \o <<"w", "i", "t", "h", " ", "t", "h", "e", " ", "l", "a", "t", "e", "s", "t", " ", "s", "n", "a", "p", "s", "h", "o", "t", "s", " ", "a", "v", "a", "i", "l", "a", "b", "l", "e", " ", "i", "n", " ", "C", "a", "n", "a", "d", "a", ":", " ">>
              \o <<"[", "U+0060", "d", "a", "t", "a", "/", "2", "0", "2", "4", "/", "0", "1", "/", "0", "1", "/", "i", "b", "k", "r", "-", "c", "a", "n", "a", "d", "a", "-", "i", "n", "t", "e", "r", "e", "s", "t", "-", "r", "a", "t", "e", "s", ".", "c", "s", "v", "U+0060", "]", "(", "d", "a", "t", "a", "/", "2", "0", "2", "4", "/", "0", "1", "/", "0", "1", "/", "i", "b", "k", "r", "-", "c", "a", "n", "a", "d", "a", "-", "i", "n", "t", "e", "r", "e", "s", "t", "-", "r", "a", "t", "e", "s", ".", "c", "s", "v", ")", " ", "a", "n", "d", " ">>
              \o <<"[", "U+0060", "d", "a", "t", "a", "/", "2", "0", "2", "4", "/", "0", "1", "/", "0", "1", "/", "i", "b", "k", "r", "-", "c", "a", "n", "a", "d", "a", "-", "m", "a", "r", "g", "i", "n", "-", "r", "a", "t", "e", "s", ".", "c", "s", "v", "U+0060", "]", "(", "d", "a", "t", "a", "/", "2", "0", "2", "4", "/", "0", "1", "/", "0", "1", "/", "i", "b", "k", "r", "-", "c", "a", "n", "a", "d", "a", "-", "m", "a", "r", "g", "i", "n", "-", "r", "a", "t", "e", "s", ".", "c", "s", "v", ")", ";", " ">>
              \o <<"U", "S", ":", " ", "[", "U+0060", "d", "a", "t", "a", "/", "2", "0", "2", "4", "/", "0", "1", "/", "0", "1", "/", "i", "b", "k", "r", "-", "u", "s", "-", "i", "n", "t", "e", "r", "e", "s", "t", "-", "r", "a", "t", "e", "s", ".", "c", "s", "v", "U+0060", "]", "(", "d", "a", "t", "a", "/", "2", "0", "2", "4", "/", "0", "1", "/", "0", "1", "/", "i", "b", "k", "r", "-", "u", "s", "-", "i", "n", "t", "e", "r", "e", "s", "t", "-", "r", "a", "t", "e", "s", ".", "c", "s", "v", ")", " ", "a", "n", "d", " ">>
              \o <<"[", "U+0060", "d", "a", "t", "a", "/", "2", "0", "2", "4", "/", "0", "1", "/", "0", "1", "/", "i", "b", "k", "r", "-", "u", "s", "-", "m", "a", "r", "g", "i", "n", "-", "r", "a", "t", "e", "s", ".", "c", "s", "v", "U+0060", "]", "(", "d", "a", "t", "a", "/", "2", "0", "2", "4", "/", "0", "1", "/", "0", "1", "/", "i", "b", "k", "r", "-", "u", "s", "-", "m", "a", "r", "g", "i", "n", "-", "r", "a", "t", "e", "s", ".", "c", "s", "v", ")", ".">>
              \o <<"\n">> \o OldLine \o <<"\n">>

\* One region has both files and the other has one: only the first is
\* listed.
C22_WitnessOneRegion ==
    /\ upc = "returned"
    /\ WrittenNames(written) = {"ca-interest", "us-interest", "us-margin"}
    /\ readme.writes = 1
    /\ readme.text = ListedLine(written)

\* A run with one source: README.md keeps the old line.
C22_WitnessKept ==
    /\ upc = "returned"
    /\ WrittenNames(written) = {"ca-interest"}
    /\ readme.text = OldLine
    /\ readme.writes = 0

-----------------------------------------------------------------------------
(* run_update: the order of the passes                                     *)

\* The names of the run in the order given, or the four configured names.
RunNames ==
    IF source_names.given THEN source_names.names
    ELSE <<"ca-interest", "ca-margin", "us-interest", "us-margin">>

CsvPaths(fs) == {f.path : f \in CsvFiles(fs)}

PathsBefore(k) == {DatedPath(RunNames[j]) : j \in 1..(k - 1)}

\* A pass of the loop has raised: the fetcher, the parser or _ensure_valid.
PassRaised == upc = "raised" /\ raised.kind # "KeyError"

\* C23 as stated: when the k-th source raises, CSV files exist for exactly
\* the sources before k and for none at or after k.
C23_FilesBeforeOnly ==
    PassRaised =>
        /\ CsvPaths(files) = PathsBefore(index + 1)
        /\ \A j \in (index + 1)..Len(RunNames) : DatedPath(RunNames[j]) \notin CsvPaths(files)

\* C23, amended: the passes take the sources one after another in the order
\* given; before the k-th pass the CSV files are exactly those of the
\* sources before k; the pass either writes the file of the k-th source and
\* goes on to k + 1, or raises and leaves every file as it is, so that files
\* exist for exactly the sources before k, and for no source at or after k
\* that is not also listed before k.
C23_InOrderNoRollback ==
    [][(upc = "loop" /\ index < Len(RunNames)) =>
          LET k == index + 1
          IN  /\ CsvPaths(files) = PathsBefore(k)
              /\ \/ /\ upc' = "loop"
                    /\ index' = k
                    /\ files' = {f \in files : f.path # DatedPath(RunNames[k])}
                                  \cup {[kind |-> "file", path |-> DatedPath(RunNames[k]),
                                         content |-> RowsToCsv(rows')]}
                 \/ /\ upc' = "raised"
                    /\ raised' # NoError
                    /\ index' = index
                    /\ files' = files
                    /\ \A j \in k..Len(RunNames) :
                          (\A i \in 1..(k - 1) : RunNames[i] # RunNames[j])
                              => DatedPath(RunNames[j]) \notin CsvPaths(files')]_vars

\* The second of two sources raised: the file of the first is there.
C23_Witness ==
    /\ PassRaised
    /\ source_names = SourceNameList(<<"us-margin", "ca-interest">>)
    /\ index = 1
    /\ CsvPaths(files) = {DatedPath("us-margin")}

\* The third of four sources raised in validation.
C23_WitnessThird ==
    /\ PassRaised
    /\ ~source_names.given
    /\ index = 2
    /\ raised = TooFewRows
    /\ CsvPaths(files) = {DatedPath("ca-interest"), DatedPath("ca-margin")}

\* C24: a step of run_update changes README.md only when every selected
\* source has been fetched (or overridden), parsed, validated and written,
\* and the run returns with it; a step in which a source fails leaves
\* README.md as it is, and so does every step before it.
C24_ReadmeLast ==
    [][/\ readme' # readme =>
              /\ upc = "loop"
              /\ upc' = "returned"
              /\ index = Len(RunNames)
              /\ CsvPaths(files) = {DatedPath(RunNames[j]) : j \in 1..Len(RunNames)}
              /\ \A j \in 1..Len(RunNames) :
                    \/ RunNames[j] \in html_overrides
                    \/ \E i \in 1..Len(fetched) : fetched[i] = SOURCES[RunNames[j]].url
       /\ upc' = "raised" => readme' = readme]_vars

\* The third source failed after both files of Canada were written: the
\* README.md of the tests still has its old line.
C24_Witness ==
    /\ PassRaised
    /\ index = 2
    /\ CsvPaths(files) = {DatedPath("ca-interest"), DatedPath("ca-margin")}
    /\ readme = Readme(OldLine)

C24_WitnessChanged ==
    /\ upc = "returned"
    /\ readme.writes = 1
    /\ Len(written) = 2

\* C25: a call of run_update whose source_names holds a name that is not
\* configured raises KeyError and has no effect: no directory and no file
\* is made, the fetcher is not called, also not for configured names listed
\* before the unknown one, and README.md is as before.
C25_UnknownSourceNoEffect ==
    [][(/\ upc = "idle"
        /\ source_names'.given
        /\ \E k \in 1..Len(source_names'.names) :
              source_names'.names[k] \notin {"ca-interest", "ca-margin", "us-interest", "us-margin"}) =>
          /\ upc' = "raised"
          /\ raised'.kind = "KeyError"
          /\ files' = files
          /\ fetched' = fetched
          /\ written' = written
          /\ readme' = readme]_vars

\* A configured name comes before the unknown one.
C25_Witness ==
    /\ upc = "raised"
    /\ raised = UnknownSource
    /\ source_names = SourceNameList(<<"ca-interest", "xx-rates">>)
    /\ html_overrides = {}
    /\ files = {}
    /\ fetched = <<>>
    /\ readme = Readme(OldLine)

-----------------------------------------------------------------------------
(* run_update: the calls of the fetcher                                    *)

CallsFor(name) == {i \in 1..Len(fetched) : fetched[i] = SOURCES[name].url}

\* The run got past _resolve_sources.
Resolved == upc \in {"loop", "returned"} \/ PassRaised

RunNameSet == {RunNames[j] : j \in 1..Len(RunNames)}

\* C26 as stated: the fetcher is called at most once for a selected source,
\* and only for selected sources without an override; it is not called when
\* every selected source has an override.
C26_OncePerSource ==
    Resolved =>
        /\ \A name \in RunNameSet : Cardinality(CallsFor(name)) <= 1
        /\ \A i \in 1..Len(fetched) :
              \E name \in RunNameSet \ html_overrides : fetched[i] = SOURCES[name].url
        /\ RunNameSet \subseteq html_overrides => fetched = <<>>

\* The names among the first p of the run that have no override, in order.
RECURSIVE Fetchable(_)
Fetchable(p) ==
    IF p = 0 THEN <<>>
    ELSE IF RunNames[p] \in html_overrides THEN Fetchable(p - 1)
    ELSE Append(Fetchable(p - 1), RunNames[p])

\* C26, amended: the fetcher is called at most once for each entry of the
\* list of selected sources, in the order of the list, and only for entries
\* without an override, so a source listed twice may be fetched twice; it is
\* not called when every selected source has an override, and an override
\* for a source that is not selected changes nothing.
C26_OncePerEntry ==
    Resolved =>
        /\ LET passes == IF PassRaised THEN index + 1 ELSE index
           IN  /\ Len(fetched) = Len(Fetchable(passes))
               /\ \A i \in 1..Len(fetched) : fetched[i] = SOURCES[Fetchable(passes)[i]].url
        /\ \A i \in 1..Len(fetched) :
              \E name \in RunNameSet \ html_overrides : fetched[i] = SOURCES[name].url
        /\ RunNameSet \subseteq html_overrides => fetched = <<>>

\* One of two selected sources has an override; there are overrides for
\* other sources too.
C26_Witness ==
    /\ upc = "returned"
    /\ source_names = SourceNameList(<<"us-margin", "us-interest">>)
    /\ html_overrides = {"ca-margin", "us-margin", "xx-rates"}
    /\ fetched = <<SOURCES["us-interest"].url>>

C26_WitnessAllOverridden ==
    /\ upc = "returned"
    /\ ~source_names.given
    /\ html_overrides = {"ca-interest", "ca-margin", "us-interest", "us-margin"}
    /\ fetched = <<>>

C26_WitnessTwice ==
    /\ upc = "returned"
    /\ source_names = SourceNameList(<<"ca-interest", "ca-interest">>)
    /\ Len(fetched) = 2

-----------------------------------------------------------------------------
(* _update_readme_links called twice                                       *)

IsOutside(path) == path = <<>> \/ path[1] # <<"r", "e", "p", "o">>

PathWritten(name) == (CHOOSE entry \in {written[k] : k \in 1..Len(written)} : entry.name = name).path

\* A region has both files written and one of the two is not below the
\* directory of README.md.
CompleteRegionOutside ==
    \/ RegionCanada(written) /\ (IsOutside(PathWritten("ca-interest")) \/ IsOutside(PathWritten("ca-margin")))
    \/ RegionUS(written) /\ (IsOutside(PathWritten("us-interest")) \/ IsOutside(PathWritten("us-margin")))

SecondCallKeeps == index = 1 => readme' = readme

\* C27 as stated: the second of two calls with the same written files
\* leaves the text of README.md as it is and does not write; and a call
\* does not write when README.md does not exist, when no region has both
\* files, when a written CSV is outside the directory of README.md, or when
\* the snapshot sentence is not in README.md.
C27_IdempotentConservative ==
    [][/\ SecondCallKeeps
       /\ (\/ ~readme.exists
           \/ ~(RegionCanada(written) \/ RegionUS(written))
           \/ \E k \in 1..Len(written) : IsOutside(written[k].path)
           \/ SentenceStarts(readme.text) = {}) => readme' = readme]_vars

\* C27, amended: as C27, but of the written CSV files outside the directory
\* of README.md only those of a region with both files written keep the
\* call from writing.
C27_IdempotentConservativePairs ==
    [][/\ SecondCallKeeps
       /\ (\/ ~readme.exists
           \/ ~(RegionCanada(written) \/ RegionUS(written))
           \/ CompleteRegionOutside
           \/ SentenceStarts(readme.text) = {}) => readme' = readme]_vars

\* Two calls were made, the first wrote README.md and the second did not.
C27_Witness ==
    /\ index = 2
    /\ readme.writes = 1
    /\ Len(written) = 4
    /\ SubSeq(readme.text, 1, 2) = <<">", " ">>

\* Both files of Canada are written, one of them outside: no write.
C27_WitnessOutside ==
    /\ index = 2
    /\ CompleteRegionOutside
    /\ readme.writes = 0
    /\ SentenceStarts(readme.text) # {}

\* The snapshot sentence is cut short: no write.
C27_WitnessNoMatch ==
    /\ index = 1
    /\ Len(written) = 4
    /\ readme = Readme(PatternHead \o <<"\n">>)

-----------------------------------------------------------------------------
(* The row assembler: rows that are dropped                                *)

\* Row n has at least 3 cells and a first cell, and is dropped for its empty
\* tier text or for its rate cell without a rate.
NamedButDropped(n) ==
    /\ Len(consumed[n]) >= 3
    /\ consumed[n][1] # Empty
    /\ consumed[n][2] = Empty \/ ParseRate(consumed[n][3]) = Empty

\* Row n has at least 3 cells, a blank first cell, a tier text and a rate.
BlankButComplete(n) ==
    /\ Len(consumed[n]) >= 3
    /\ consumed[n][1] = Empty
    /\ consumed[n][2] # Empty
    /\ ParseRate(consumed[n][3]) # Empty

\* C28: a row with at least 3 cells and a non-blank first cell sets the
\* carried-forward currency to its first cell, also when the row is dropped
\* for its empty tier text or its missing rate; the row right after such a
\* dropped row, when its first cell is blank and it has tier text and rate,
\* is emitted with the first cell of the dropped row as its currency.
C28_DroppedRowSetsCurrency ==
    \A n \in 1..Len(consumed) :
        /\ (Len(consumed[n]) >= 3 /\ consumed[n][1] # Empty /\ n = Len(consumed))
              => last_currency = consumed[n][1]
        /\ NamedButDropped(n) =>
              /\ \A k \in 1..Len(rows) : origin[k] # n
              /\ (n < Len(consumed) /\ BlankButComplete(n + 1)) =>
                    \E k \in 1..Len(rows) :
                        origin[k] = n + 1 /\ rows[k].currency = consumed[n][1]

\* The header row inside the body gives its first cell to the tier row below.
C28_Witness ==
    /\ consumed = <<FirstTierRow, HeaderRow, SecondTierRow>>
    /\ Len(rows) = 2
    /\ rows[1].currency = <<"U", "S", "D">>
    /\ rows[2].currency = <<"C", "u", "r", "r", "e", "n", "c", "y">>
    /\ last_currency = <<"C", "u", "r", "r", "e", "n", "c", "y">>

\* A row without tier text does the same.
C28_WitnessNoTier ==
    /\ consumed = <<EuroRow, <<USD, Empty, <<"1", "%">>>>, SecondTierRow>>
    /\ Len(rows) = 2
    /\ rows[2].currency = USD

-----------------------------------------------------------------------------
(* The bounds of a tier, in the pair returned and in the row emitted       *)

NoComma(t) == \A i \in 1..Len(t) : t[i] # ","

\* C29: the pair _parse_tier_bounds returns has a lower bound whenever it
\* has an upper bound, and neither of the two holds a comma; so a row that
\* is emitted with a tier_high has a tier_low.
C29_UpperImpliesLower ==
    /\ TierApplied =>
          /\ result[2] # Empty => result[1] # Empty
          /\ NoComma(result[1])
          /\ NoComma(result[2])
    /\ \A k \in 1..Len(rows) :
          /\ rows[k].tier_high # Empty => rows[k].tier_low # Empty
          /\ NoComma(rows[k].tier_low)
          /\ NoComma(rows[k].tier_high)

\* A range with one number, written with a comma.
C29_Witness ==
    /\ TierApplied
    /\ text = <<"1", ",", "2", "-">>
    /\ result = <<<<"0">>, <<"1", "2">>>>
    /\ Len(rows) = 1
    /\ rows[1].tier_low = <<"0">>
    /\ rows[1].tier_high = <<"1", "2">>

C29_WitnessTwo ==
    /\ TierApplied
    /\ text = <<"$", "1", "0", ",", "0", "0", "0", " ", "-", " ", "$", "1", "0", "0", ",", "0", "0", "0">>
    /\ result = <<<<"1", "0", "0", "0", "0">>, <<"1", "0", "0", "0", "0", "0">>>>
    /\ Len(rows) = 1

====
